---- MODULE Spec2Model ----
(***************************************************************************)
(* A model of the chat engine of dedalus-react: the conversation store     *)
(* (DedalusChatState), the request orchestrator (performRequest, stop,     *)
(* sendMessage, addToolResult of useChat) and the delta accumulation done  *)
(* inside the streaming loop.                                              *)
(*                                                                         *)
(* JavaScript strings are sequences of one-character strings, so that      *)
(* concatenation, lower-casing and substring search are computed.  Every   *)
(* step of the model is the code that runs between two suspension points   *)
(* (an await, a promise continuation) of the single-threaded event loop.   *)
(***************************************************************************)
EXTENDS Integers, Sequences, FiniteSets, TLC

VARIABLES
  messages,           \* DedalusChatState.#messages
  status,             \* DedalusChatState.#status
  error,              \* DedalusChatState.#error
  abortControllerRef, \* abortControllerRef.current: 0 (null) or the round owning the controller
  notifiedToolCalls,  \* notifiedToolCallsRef.current
  round,              \* the locals of every performRequest invocation
  nRounds,            \* number of performRequest invocations so far
  toolThen,           \* pending .then continuations of addToolResult (predicate verdicts)
  options,            \* the callbacks the hook was given
  caller,             \* what the caller has seen and done: reported tool call ids,
                      \* answered ones, numbers of stop() and addToolResult() calls
  nChunks,            \* number of chunks the streams have delivered so far
  budget,             \* the bounds of the run being explored (never changes)
  effects,            \* what the last step did, in program order
  uncaught,           \* failures that left an entry point: rejections of the promise
                      \* of sendMessage, throws of addToolResult, unhandled rejections
  sse,                \* one run of parseSSEStream: source, reader and generator
  fold,               \* two runs of the accumulation of the streaming loop
  session,            \* the refs of the hook over its renders and the stores created
  adapter,            \* one run of a response adapter of the server side
  store               \* one DedalusChatState as a heap: lists, entries, listeners

vars == <<messages, status, error, abortControllerRef, notifiedToolCalls, round,
          nRounds, toolThen, options, caller, nChunks, budget, effects, uncaught,
          sse, fold, session, adapter, store>>

(***************************************************************************)
(* Bounds of the model.  Two families of runs are explored: runs of at     *)
(* most MaxRounds rounds in which the caller may stop and the transport    *)
(* may fail, and tool-use chains of at most MaxChain rounds in which       *)
(* neither happens.                                                        *)
(***************************************************************************)
MaxRounds == 2
MaxDeltas == 2
MaxStops == 2
MaxToolResults == 1
MaxChain == 3
MaxChainDeltas == 1
\* runs in which the caller's callbacks fail
MaxFaultyRounds == 2
MaxFaultyStops == 1
MaxFaultyDeltas == 1

(***************************************************************************)
(* Strings.                                                                *)
(***************************************************************************)
Null == <<"<null>">>
Undefined == <<"<undefined>">>

UpperCase == <<"A","B","C","D","E","F","G","H","I","J","K","L","M",
               "N","O","P","Q","R","S","T","U","V","W","X","Y","Z">>
LowerCase == <<"a","b","c","d","e","f","g","h","i","j","k","l","m",
               "n","o","p","q","r","s","t","u","v","w","x","y","z">>

LowerChar(c) ==
  IF \E i \in 1..Len(UpperCase) : UpperCase[i] = c
    THEN LowerCase[CHOOSE i \in 1..Len(UpperCase) : UpperCase[i] = c]
    ELSE c

ToLowerCase(s) == [i \in 1..Len(s) |-> LowerChar(s[i])]

Includes(s, sub) ==
  \E i \in 0..(Len(s) - Len(sub)) : SubSeq(s, i + 1, i + Len(sub)) = sub

DigitChars == <<"0","1","2","3","4","5","6","7","8","9">>

RECURSIVE NumberToString(_)
NumberToString(n) ==
  IF n < 10 THEN <<DigitChars[n + 1]>>
  ELSE NumberToString(n \div 10) \o <<DigitChars[(n % 10) + 1]>>

StrFetch == <<"f","e","t","c","h">>
StrNetwork == <<"n","e","t","w","o","r","k">>
StrHttp == <<"H","T","T","P"," ">>
StrColon == <<":"," ">>
StrBodyNull == <<"R","e","s","p","o","n","s","e"," ","b","o","d","y"," ",
                 "i","s"," ","n","u","l","l">>
StrReadId == <<"C","a","n","n","o","t"," ","r","e","a","d"," ","i","d">>

(***************************************************************************)
(* Thrown values.  cls is what instanceof sees ("string": a thrown value   *)
(* that is no Error), name and message are the Error's fields.             *)
(***************************************************************************)
Thrown(cls, name, message) == [cls |-> cls, name |-> name, message |-> message]

NoError == Thrown("undefined", "", <<>>)

AbortError == Thrown("DOMException", "AbortError", <<"a","b","o","r","t","e","d">>)

\* what the transport (fetch, the body stream) can fail with besides the abort
ErrFailedToFetch == Thrown("TypeError", "TypeError",
                           <<"F","a","i","l","e","d"," ","t","o"," ">> \o StrFetch)
ErrNetworkError == Thrown("TypeError", "TypeError",
                          <<"N","e","t","w","o","r","k","E","r","r","o","r">>)
ErrLoadFailed == Thrown("TypeError", "TypeError",
                        <<"L","o","a","d"," ","f","a","i","l","e","d">>)
ErrPlainFetch == Thrown("Error", "Error", StrFetch \o <<" ","t","i","m","e","o","u","t">>)
ThrownString == Thrown("string", "", <<"b","o","o","m">>)

\* what a failing callback of the caller throws or rejects with
ErrOnFinish == Thrown("Error", "Error", <<"o","n","F","i","n","i","s","h">>)
ErrOnError == Thrown("Error", "Error", <<"o","n","E","r","r","o","r">>)
ErrOnToolCall == Thrown("Error", "Error", <<"o","n","T","o","o","l","C","a","l","l">>)
ErrPredicate == Thrown("Error", "Error", <<"p","r","e","d","i","c","a","t","e">>)

TransportFailures == {ErrFailedToFetch, ErrNetworkError, ErrLoadFailed, ErrPlainFetch, ThrownString}

HttpCodes == {500}
BodyTexts == {<<"o","o","p","s">>}

\* use-chat.ts:326  new Error(`HTTP ${response.status}: ${errorText}`)
HttpErrorMutant(code, errorText) ==
  Thrown("Error", "Error", StrHttp \o StrColon \o errorText)
HttpError(code, errorText) ==
  Thrown("Error", "Error", StrHttp \o NumberToString(code) \o StrColon \o errorText)

\* use-chat.ts:330
BodyNullError == Thrown("Error", "Error", StrBodyNull)

\* isCompleteToolCall(undefined): reading .id of a hole of the sparse array
HoleTypeError == Thrown("TypeError", "TypeError", StrReadId)

\* use-chat.ts:438  err instanceof Error && err.name === "AbortError"
IsAbortError(err) == err.cls # "string" /\ err.name = "AbortError"

\* use-chat.ts:456-462
IsDisconnectMutant(err) ==
  /\ err.cls = "TypeError"
  /\ \/ Includes(err.message, StrFetch)
     \/ Includes(err.message, StrNetwork)
IsDisconnect(err) ==
  /\ err.cls = "TypeError"
  /\ \/ Includes(ToLowerCase(err.message), StrFetch)
     \/ Includes(ToLowerCase(err.message), StrNetwork)

AsErrorDropped(err) == NoError

\* use-chat.ts:464  err instanceof Error ? err : new Error(String(err))
AsError(err) == IF err.cls = "string" THEN Thrown("Error", "Error", err.message) ELSE err

(***************************************************************************)
(* JSON values (the result of a tool) and JSON.stringify.                  *)
(***************************************************************************)
JString(s) == [t |-> "string", v |-> s]
JBool(b) == [t |-> "boolean", v |-> b]
JNumber(n) == [t |-> "number", v |-> n]
JObject(pairs) == [t |-> "object", v |-> pairs]

\* JSON.stringify writes the quote, the backslash and the line break of a
\* string as escapes
RECURSIVE EscapeString(_)
EscapeString(s) ==
  IF Len(s) = 0 THEN <<>>
  ELSE (CASE Head(s) = "\n" -> <<"\\", "n">>
          [] Head(s) = "\"" -> <<"\\", "\"">>
          [] Head(s) = "\\" -> <<"\\", "\\">>
          [] OTHER -> <<Head(s)>>)
       \o EscapeString(Tail(s))

Quote(s) == <<"\"">> \o EscapeString(s) \o <<"\"">>

RECURSIVE JSONStringify(_)
RECURSIVE StringifyPairs(_)
StringifyPairs(pairs) ==
  IF Len(pairs) = 0 THEN <<>>
  ELSE Quote(pairs[1][1]) \o <<":">> \o JSONStringify(pairs[1][2])
       \o (IF Len(pairs) > 1 THEN <<",">> ELSE <<>>)
       \o StringifyPairs(Tail(pairs))
JSONStringify(x) ==
  CASE x.t = "string" -> Quote(x.v)
    [] x.t = "boolean" -> (IF x.v THEN <<"t","r","u","e">> ELSE <<"f","a","l","s","e">>)
    [] x.t = "number" -> NumberToString(x.v)
    [] x.t = "object" -> <<"{">> \o StringifyPairs(x.v) \o <<"}">>

StrOk == <<"o","k">>
ResultValues == {JString(StrOk), JObject(<<<<StrOk, JBool(TRUE)>>>>)}

\* use-chat.ts:517
ToolContentMutant(result) == JSONStringify(result)
ToolContent(result) == IF result.t = "string" THEN result.v ELSE JSONStringify(result)

(***************************************************************************)
(* Messages and the store's log operations.                                *)
(***************************************************************************)
UserMessage(text) == [role |-> "user", content |-> text]
ToolMessage(toolCallId, content) ==
  [role |-> "tool", tool_call_id |-> toolCallId, content |-> content]
Placeholder == [role |-> "assistant", content |-> <<>>]

\* chat-state pushMessage
pushMessage(log, m) == Append(log, m)

replaceLastMessageFront(log, m) ==
  IF Len(log) = 0 THEN pushMessage(log, m)
  ELSE <<m>> \o SubSeq(log, 1, Len(log) - 1)

\* chat-state replaceLastMessage (structuredClone: values are copied)
replaceLastMessage(log, m) ==
  IF Len(log) = 0 THEN pushMessage(log, m)
  ELSE Append(SubSeq(log, 1, Len(log) - 1), m)

\* state.messages[state.messages.length - 1]
LastMessage(log) == IF Len(log) = 0 THEN Undefined ELSE log[Len(log)]

(***************************************************************************)
(* Delta accumulation (the body of the streaming loop).                    *)
(* A chunk either has no delta, or a delta with content (<<>>: absent or   *)
(* empty, both falsy) and a list of tool-call fragments.  toolCalls is the *)
(* sparse array: JS index i is position i + 1, Hole an unset position.     *)
(***************************************************************************)
Hole == [hole |-> TRUE]
Fragment(index, id, name, arguments) ==
  [index |-> index, id |-> id, name |-> name, arguments |-> arguments]
NoDelta == [delta |-> FALSE]
Delta(content, tool_calls) ==
  [delta |-> TRUE, content |-> content, tool_calls |-> tool_calls]

IsUnset(toolCalls, index) == index + 1 > Len(toolCalls) \/ toolCalls[index + 1].hole

SetAt(toolCalls, index, v) ==
  [i \in 1..(IF index + 1 > Len(toolCalls) THEN index + 1 ELSE Len(toolCalls)) |->
     IF i = index + 1 THEN v
     ELSE IF i <= Len(toolCalls) THEN toolCalls[i] ELSE Hole]

\* use-chat.ts:362-381
MergeFirstId(toolCalls, tc) ==
  LET base == IF IsUnset(toolCalls, tc.index)
                THEN SetAt(toolCalls, tc.index,
                           [hole |-> FALSE, id |-> tc.id, type |-> "function",
                            function |-> [name |-> <<>>, arguments |-> <<>>]])
                ELSE toolCalls
      e0 == base[tc.index + 1]
      e2 == [e0 EXCEPT !.function.name = @ \o tc.name]
      e3 == [e2 EXCEPT !.function.arguments = @ \o tc.arguments]
  IN  SetAt(base, tc.index, e3)

MergeFragment(toolCalls, tc) ==
  LET base == IF IsUnset(toolCalls, tc.index)
                THEN SetAt(toolCalls, tc.index,
                           [hole |-> FALSE, id |-> tc.id, type |-> "function",
                            function |-> [name |-> <<>>, arguments |-> <<>>]])
                ELSE toolCalls
      e0 == base[tc.index + 1]
      e1 == IF tc.id # <<>> THEN [e0 EXCEPT !.id = tc.id] ELSE e0
      e2 == [e1 EXCEPT !.function.name = @ \o tc.name]
      e3 == [e2 EXCEPT !.function.arguments = @ \o tc.arguments]
  IN  SetAt(base, tc.index, e3)

RECURSIVE MergeFragments(_, _)
MergeFragments(toolCalls, frags) ==
  IF Len(frags) = 0 THEN toolCalls
  ELSE MergeFragments(MergeFragment(toolCalls, Head(frags)), Tail(frags))

\* use-chat.ts:355-357
AccumulateContentMutant(acc, delta) == delta.content
AccumulatePrepended(acc, delta) == delta.content \o acc
AccumulateContent(acc, delta) == acc \o delta.content

ToolCallOf(e) == [id |-> e.id, type |-> e.type, function |-> e.function]

\* toolCalls.filter(Boolean)
FilterKeepsHoles(toolCalls) ==
  [i \in 1..Len(toolCalls) |->
     IF toolCalls[i].hole THEN Hole ELSE ToolCallOf(toolCalls[i])]

RECURSIVE FilterBoolean(_)
FilterBoolean(toolCalls) ==
  IF Len(toolCalls) = 0 THEN <<>>
  ELSE (IF Head(toolCalls).hole THEN <<>> ELSE <<ToolCallOf(Head(toolCalls))>>)
       \o FilterBoolean(Tail(toolCalls))

\* use-chat.ts:386-392
UpdatedAssistant(acc, toolCalls) ==
  IF Len(toolCalls) > 0
    THEN [role |-> "assistant",
          content |-> IF acc # <<>> THEN acc ELSE Null,
          tool_calls |-> FilterBoolean(toolCalls)]
    ELSE [role |-> "assistant", content |-> IF acc # <<>> THEN acc ELSE Null]

\* use-chat.ts:29-31
isCompleteToolCall(tc) ==
  tc.id # <<>> /\ tc.function.name # <<>> /\ tc.function.arguments # <<>>

StrA == <<"a">>
StrB == <<"b">>
StrT1 == <<"t","1">>
StrT2 == <<"t","2">>
StrF == <<"f">>
StrArgs == <<"{","}">>

\* the chunks a stream of the model can deliver
Chunks ==
  { NoDelta,
    Delta(StrA, <<>>),
    Delta(<<>>, <<>>),
    Delta(<<>>, <<Fragment(0, StrT1, StrF, StrArgs)>>),
    Delta(<<>>, <<Fragment(1, StrT2, StrF, StrArgs)>>) }

UserTexts == {<<"h","i">>}

(***************************************************************************)
(* The effects of a step, in program order: assignments to the store and   *)
(* the refs, and the calls of the caller's callbacks.                      *)
(***************************************************************************)
EvStatus(v) == [ev |-> "status", value |-> v]
EvError(e) == [ev |-> "error", value |-> e]
EvRef(v) == [ev |-> "abortControllerRef", value |-> v]
EvNotifiedReset == [ev |-> "notifiedReset"]
EvPush(m) == [ev |-> "pushMessage", message |-> m]
EvReplace(m) == [ev |-> "replaceLastMessage", message |-> m]
EvAbort(r) == [ev |-> "abort", round |-> r]
EvFetch(r, log) == [ev |-> "fetch", round |-> r, messages |-> log]
EvOnToolCall(r, tc) == [ev |-> "onToolCall", round |-> r, toolCall |-> tc]
EvOnError(r, e) == [ev |-> "onError", round |-> r, error |-> e]
EvOnFinish(r, m, log, isAbort, isDisconnect, isError) ==
  [ev |-> "onFinish", round |-> r, message |-> m, messages |-> log,
   isAbort |-> isAbort, isDisconnect |-> isDisconnect, isError |-> isError]
EvPredicate(log, result) ==
  [ev |-> "sendAutomaticallyWhen", messages |-> log, result |-> result]
\* what started the step: a call of the caller, or the value an await of round
\* r resumed with (r = 0: the promise chain of addToolResult)
\* the predicate threw or returned a rejected promise
EvPredicateFailed(log) == [ev |-> "sendAutomaticallyWhenFailed", messages |-> log]
\* the .catch handler of the promise of onToolCall: console.error
EvConsoleError(r, tc) == [ev |-> "console.error", round |-> r, toolCall |-> tc]
EvCall(op, arg) == [ev |-> "call", op |-> op, arg |-> arg]
\* the continuation of an await of round r: what the awaited promise settled
\* with is a response, a chunk or an error (value), a body text (text), the
\* verdict of the predicate (verdict), or nothing (the end of the stream)
EvResume(r, point, value) ==
  CASE point = "text" -> [ev |-> "resume", round |-> r, point |-> point, text |-> value]
    [] point = "verdict" ->
         [ev |-> "resume", round |-> r, point |-> point, verdict |-> value]
    [] point = "end" -> [ev |-> "resume", round |-> r, point |-> point]
    [] OTHER -> [ev |-> "resume", round |-> r, point |-> point, value |-> value]

(***************************************************************************)
(* The locals of one performRequest invocation.                            *)
(*   pc: idle (not invoked), fetch (awaiting fetch), text (awaiting        *)
(*       response.text() of a non-2xx response), stream (in the for-await  *)
(*       loop), autosend (awaiting the predicate), awaiting (awaiting the  *)
(*       nested performRequest of the auto-continuation), done.            *)
(* parent is the round that awaits this one (0: called by sendMessage or   *)
(* by the promise chain of addToolResult).                                 *)
(* The locals of a round that is done are dead: its record is reset.       *)
(* deltas is the history of the deltas the loop has folded.                *)
(***************************************************************************)
(***************************************************************************)
(* The transport of a round (use-chat.ts:220-258, 280-322).  A property of *)
(* the transport is absent, a static value, or a resolver; the context a   *)
(* resolver reads changes between any two rounds, so that the value it     *)
(* returns when called in round r is a value of its own.                   *)
(***************************************************************************)
Absent == [src |-> "undefined", n |-> 0]
Static == [src |-> "static", n |-> 0]
Fresh(r) == [src |-> "resolver", n |-> r]
PerCall == [src |-> "call", n |-> 0]

\* objects are functions from keys to values
EmptyObject == [k \in {} |-> Absent]

\* { ...a, ...b }
Spread(a, b) == b @@ a

HdrContentType == <<"C","o","n","t","e","n","t","-","T","y","p","e">>
HdrId == <<"X","-","I","d">>
HdrTrace == <<"X","-","T","r","a","c","e">>
ApplicationJson == [src |-> "application/json", n |-> 0]

ChatId == "chat-1"

\* a headers value: undefined, a plain object, or a Headers instance
NoHeaders == [form |-> "undefined", entries |-> EmptyObject]
HeadersValue(form, v) ==
  [form |-> form, entries |-> (HdrId :> v) @@ (HdrTrace :> v)]

\* the per-call options of the send operation
NoRequestOptions == [headers |-> NoHeaders, body |-> EmptyObject]
OverridingOptions ==
  [headers |-> [form |-> "record", entries |-> (HdrId :> PerCall)],
   body |-> ("temperature" :> PerCall)]
RequestOptions == {NoRequestOptions, OverridingOptions}

\* use-chat.ts:37-45: the entries of a Headers instance carry lower-case names
normalizeHeaders(headers) ==
  IF headers.form = "Headers"
    THEN [k \in {ToLowerCase(x) : x \in DOMAIN headers.entries} |->
            headers.entries[CHOOSE x \in DOMAIN headers.entries : ToLowerCase(x) = k]]
    ELSE headers.entries

\* use-chat.ts:33-35, 220-258: one property, resolved for round r
ResolveStale(kind, r) ==
  CASE kind = "resolver" -> Fresh(1)
    [] kind = "static" -> Static
    [] OTHER -> Absent

Resolve(kind, r) ==
  CASE kind = "resolver" -> Fresh(r)
    [] kind = "static" -> Static
    [] OTHER -> Absent

\* use-chat.ts:220-258
resolveTransport(transport, r) ==
  [api |-> Resolve(transport.api, r),
   headers |-> IF transport.headers = "absent" THEN NoHeaders
               ELSE HeadersValue(transport.headersForm, Resolve(transport.headers, r)),
   credentials |-> Resolve(transport.credentials, r),
   body |-> IF transport.body = "absent" THEN EmptyObject
            ELSE ("model" :> Resolve(transport.body, r))
                 @@ ("temperature" :> Resolve(transport.body, r))]

\* the resolvers resolveTransport calls, in order
ResolverCalls(transport) ==
  SelectSeq(<<"api", "headers", "credentials", "body">>,
            LAMBDA p : transport[p] = "resolver")

\* use-chat.ts:298-304
PrepareRequestBody(opts) == [preparedFrom |-> opts]

\* use-chat.ts:280-322: the request of round r over the log
BuildRequestOver(transport, requestOptions, log, r) ==
  LET resolvedTransport == resolveTransport(transport, r)
      mergedBodyAdditions == Spread(resolvedTransport.body, requestOptions.body)
      defaultBody == Spread([id |-> ChatId, messages |-> log], mergedBodyAdditions)
      body == IF transport.prepareRequestBody
                THEN PrepareRequestBody([id |-> ChatId, messages |-> log,
                                         body |-> mergedBodyAdditions])
                ELSE defaultBody
      mergedHeaders ==
        Spread(Spread(HdrContentType :> ApplicationJson,
                      normalizeHeaders(resolvedTransport.headers)),
               normalizeHeaders(requestOptions.headers))
  IN [api |-> resolvedTransport.api, method |-> "POST", headers |-> mergedHeaders,
      body |-> body, credentials |-> resolvedTransport.credentials, signal |-> r]

BuildRequestBehind(transport, requestOptions, log, r) ==
  BuildRequestOver(transport, requestOptions, SubSeq(log, 1, Len(log) - 1), r)

\* use-chat.ts:285: const currentMessages = state.messages
BuildRequest(transport, requestOptions, log, r) ==
  BuildRequestOver(transport, requestOptions, log, r)

NoRequest ==
  [api |-> Absent, method |-> "", headers |-> EmptyObject, body |-> EmptyObject,
   credentials |-> Absent, signal |-> 0]

\* a transport whose properties are all static, without headers and body
StaticTransport ==
  [api |-> "static", headers |-> "absent", headersForm |-> "record",
   credentials |-> "absent", body |-> "absent", prepareRequestBody |-> FALSE]

IdleRound ==
  [pc |-> "idle", kind |-> "none", aborted |-> FALSE, acc |-> <<>>,
   toolCalls |-> <<>>, code |-> 0, verdict |-> FALSE, submitted |-> <<>>,
   deltas |-> <<>>, parent |-> 0, requestOptions |-> NoRequestOptions,
   resolverCalls |-> <<>>, request |-> NoRequest]

Rounds == 1..(IF MaxChain > MaxRounds THEN MaxChain ELSE MaxRounds)

DoneRound == [IdleRound EXCEPT !.pc = "done"]

InFlight(r) == round[r].pc \in {"fetch", "text", "stream"}

\* stableSendAutomaticallyWhen?.({messages}): undefined (falsy) when absent
Predicate(log) ==
  CASE options.sendAutomaticallyWhen = "absent" -> FALSE
    [] options.sendAutomaticallyWhen = "always" -> TRUE
    [] options.sendAutomaticallyWhen = "lastIsTool" ->
         Len(log) > 0 /\ log[Len(log)].role = "tool"

\* the caller's predicate throws, or returns a promise that rejects
PredicateFails(how) ==
  options.sendAutomaticallyWhen # "absent" /\ options.predicateFails = how

PredicateCall(log) ==
  IF options.sendAutomaticallyWhen = "absent" THEN <<>>
  ELSE IF options.predicateFails # "no" THEN <<EvPredicateFailed(log)>>
  ELSE <<EvPredicate(log, Predicate(log))>>

\* round r and the rounds whose await ends when r returns
RECURSIVE Awaiting(_)
Awaiting(r) ==
  IF round[r].parent = 0 THEN {r} ELSE {r} \cup Awaiting(round[r].parent)

\* the round of that chain that an entry point called
RECURSIVE Root(_)
Root(r) == IF round[r].parent = 0 THEN r ELSE Root(round[r].parent)

\* performRequest returned to all of them
Returned(r) == [q \in Rounds |-> IF q \in Awaiting(r) THEN DoneRound ELSE round[q]]

\* where a rejection of the promise of the root's performRequest ends:
\* sendMessage awaits it (its own promise rejects); the .then callback of
\* addToolResult drops it (an unhandled rejection)
Escape(r, err) ==
  [at |-> IF round[Root(r)].kind = "send" THEN "sendMessage" ELSE "unhandled",
   error |-> err]

\* use-chat.ts:266-322: the synchronous start of performRequest, up to the
\* await of fetch.  base is the round table, log the store's log.
PerformRequest(base, kind, log, pre, parent, requestOptions) ==
  LET r == nRounds + 1 IN
  /\ nRounds < budget.rounds
  /\ status' = "submitted"
  /\ error' = NoError
  /\ abortControllerRef' = r
  /\ notifiedToolCalls' = {}
  /\ nRounds' = r
  /\ round' = [base EXCEPT ![r] = [IdleRound EXCEPT !.pc = "fetch", !.kind = kind,
                                                    !.submitted = log,
                                                    !.parent = parent,
                                                    !.requestOptions = requestOptions,
                                                    !.resolverCalls =
                                                      ResolverCalls(options.transport),
                                                    !.request =
                                                      BuildRequest(options.transport,
                                                                   requestOptions, log, r)]]
  /\ uncaught' = uncaught
  /\ effects' = pre \o <<EvStatus("submitted"), EvError(NoError), EvRef(r),
                         EvNotifiedReset, EvFetch(r, log)>>

\* use-chat.ts:436-478: the catch block of round r.  isAbort is the local flag,
\* cur the error slot.  A callback that throws inside the catch block ends
\* performRequest with a rejection (escaped, thrown).
CatchResult(r, err, isAbort, cur) ==
  IF IsAbortError(err)
    THEN [status |-> "ready", error |-> cur,
          effects |-> <<EvStatus("ready"), EvRef(0),
                        EvOnFinish(r, LastMessage(messages), messages,
                                   TRUE, FALSE, FALSE)>>,
          escaped |-> options.onFinish = "throws",
          thrown |-> ErrOnFinish]
    ELSE [status |-> "error", error |-> AsError(err),
          effects |-> <<EvError(AsError(err)), EvStatus("error"), EvRef(0),
                        EvOnError(r, AsError(err))>>
                      \o (IF options.onError = "throws" THEN <<>>
                          ELSE <<EvOnFinish(r, LastMessage(messages), messages,
                                            isAbort, IsDisconnect(err), TRUE)>>),
          escaped |-> options.onError = "throws" \/ options.onFinish = "throws",
          thrown |-> IF options.onError = "throws" THEN ErrOnError ELSE ErrOnFinish]

\* use-chat.ts:432-434, 436-478: a rejection of the nested performRequest is
\* thrown by the await of the round that awaits it, inside its try block
RECURSIVE Unwind(_, _)
Unwind(r, res) ==
  IF ~res.escaped \/ round[r].parent = 0 THEN res
  ELSE LET p == round[r].parent
           c == CatchResult(p, res.thrown, FALSE, res.error)
       IN  Unwind(p, [c EXCEPT !.effects = res.effects \o c.effects])

Catch(r, err, isAbort, pre) ==
  \E res \in {Unwind(r, CatchResult(r, err, isAbort, error))} :
  /\ status' = res.status
  /\ error' = res.error
  /\ abortControllerRef' = 0
  /\ round' = Returned(r)
  /\ effects' = pre \o res.effects
  /\ uncaught' = IF res.escaped THEN uncaught \cup {Escape(r, res.thrown)}
                 ELSE uncaught

\* use-chat.ts:402-415: the loop over the sparse array; reading a hole throws,
\* and so does a callback that throws synchronously; a promise of the callback
\* that rejects is caught and logged
RECURSIVE NotifyLoop(_, _, _, _, _)
NotifyLoop(r, toolCalls, i, notified, calls) ==
  IF i > Len(toolCalls)
    THEN [notified |-> notified, calls |-> calls, threw |-> FALSE, thrown |-> NoError]
  ELSE IF toolCalls[i].hole
    THEN [notified |-> notified, calls |-> calls, threw |-> TRUE,
          thrown |-> HoleTypeError]
  ELSE IF isCompleteToolCall(toolCalls[i]) /\ toolCalls[i].id \notin notified
    THEN LET call == EvOnToolCall(r, ToolCallOf(toolCalls[i]))
             seen == notified \cup {toolCalls[i].id}
         IN CASE options.onToolCallFails = "throws" ->
                   [notified |-> seen, calls |-> Append(calls, call),
                    threw |-> TRUE, thrown |-> ErrOnToolCall]
              [] options.onToolCallFails = "rejects" ->
                   NotifyLoop(r, toolCalls, i + 1, seen,
                              calls \o <<call,
                                         EvConsoleError(r, ToolCallOf(toolCalls[i]))>>)
              [] OTHER ->
                   NotifyLoop(r, toolCalls, i + 1, seen, Append(calls, call))
  ELSE NotifyLoop(r, toolCalls, i + 1, notified, calls)

NotifyToolCalls(r) ==
  IF options.onToolCall
    THEN NotifyLoop(r, round[r].toolCalls, 1, notifiedToolCalls, <<>>)
    ELSE [notified |-> notifiedToolCalls, calls |-> <<>>, threw |-> FALSE,
          thrown |-> NoError]

CalledIds(calls) ==
  {calls[i].toolCall.id : i \in {j \in 1..Len(calls) : calls[j].ev = "onToolCall"}}

\* use-chat.ts:418-431: what follows the tool notifications when nothing throws
FinishThenPredicate(r, isAbort) ==
  <<EvOnFinish(r, LastMessage(messages), messages, isAbort, FALSE, FALSE)>>
  \o (IF ~isAbort THEN PredicateCall(messages) ELSE <<>>)

\* use-chat.ts:396-435: Finalize, after the loop ended (isAbort: by the poll).
\* It runs inside the try block: what throws here is caught by Catch.
Finalize(r, isAbort, pre) ==
  \E loop \in {NotifyToolCalls(r)} :
  LET head == pre \o <<EvStatus("ready"), EvRef(0)>> \o loop.calls
      finish == EvOnFinish(r, LastMessage(messages), messages, isAbort, FALSE, FALSE)
  IN
  /\ notifiedToolCalls' = loop.notified
  /\ caller' = [caller EXCEPT !.reported = @ \cup CalledIds(loop.calls)]
  /\ IF loop.threw
       THEN Catch(r, loop.thrown, isAbort, head)
       ELSE IF options.onFinish = "throws"
         THEN Catch(r, ErrOnFinish, isAbort, head \o <<finish>>)
       ELSE IF ~isAbort /\ PredicateFails("throws")
         THEN Catch(r, ErrPredicate, isAbort,
                    head \o <<finish, EvPredicateFailed(messages)>>)
       ELSE /\ status' = "ready"
            /\ abortControllerRef' = 0
            /\ error' = error
            /\ uncaught' = uncaught
            /\ effects' = head \o FinishThenPredicate(r, isAbort)
            /\ round' = IF isAbort THEN Returned(r)
                        ELSE [round EXCEPT ![r].pc = "autosend",
                                           ![r].verdict = Predicate(messages)]

(***************************************************************************)
(* The caller's operations.                                                *)
(***************************************************************************)
\* use-chat.ts:491-509.  The caller sends only at rest (the documented contract).
SendMessage(text, requestOptions) ==
  /\ status \in {"ready", "error"}
  /\ requestOptions \in budget.requestOptions
  /\ messages' = pushMessage(messages, UserMessage(text))
  /\ PerformRequest(round, "send", messages',
                    <<EvCall("sendMessage", text), EvPush(UserMessage(text))>>, 0,
                    requestOptions)
  /\ UNCHANGED <<toolThen, options, caller, nChunks, budget, sse, fold, session, adapter, store>>

\* use-chat.ts:197-203
StopStatus == "ready"

Stop ==
  /\ caller.nStops < budget.stops
  /\ caller' = [caller EXCEPT !.nStops = @ + 1]
  /\ IF abortControllerRef # 0
       THEN /\ round' = [round EXCEPT ![abortControllerRef].aborted = TRUE]
            /\ effects' = <<EvCall("stop", <<>>), EvAbort(abortControllerRef),
                              EvRef(0), EvStatus(StopStatus)>>
       ELSE /\ round' = round
            /\ effects' = <<EvCall("stop", <<>>), EvStatus(StopStatus)>>
  /\ abortControllerRef' = 0
  /\ status' = StopStatus
  /\ UNCHANGED <<messages, error, notifiedToolCalls, nRounds, toolThen, options,
                 nChunks, budget, sse, fold, session, adapter, store, uncaught>>

\* use-chat.ts:511-534.  The caller answers tool calls that were reported to it,
\* each once.  The predicate is called at once; its promise's continuation
\* (ToolThen) runs later.  A predicate that throws makes addToolResult throw;
\* the promise of one that rejects has no rejection handler.
AddToolResult(toolCallId, result) ==
  /\ caller.nToolResults < budget.toolResults
  /\ toolCallId \in caller.reported \ caller.answered
  /\ caller' = [caller EXCEPT !.nToolResults = @ + 1, !.answered = @ \cup {toolCallId}]
  /\ messages' = pushMessage(messages, ToolMessage(toolCallId, ToolContent(result)))
  /\ toolThen' = IF options.sendAutomaticallyWhen # "absent"
                      /\ options.predicateFails # "no"
                   THEN toolThen
                   ELSE Append(toolThen, Predicate(messages'))
  /\ uncaught' = CASE PredicateFails("throws") ->
                       uncaught \cup {[at |-> "addToolResult", error |-> ErrPredicate]}
                   [] PredicateFails("rejects") ->
                       uncaught \cup {[at |-> "unhandled", error |-> ErrPredicate]}
                   [] OTHER -> uncaught
  /\ effects' = <<EvCall("addToolResult",
                         [toolCallId |-> toolCallId, result |-> result]),
                  EvPush(ToolMessage(toolCallId, ToolContent(result)))>>
                \o PredicateCall(messages')
  /\ UNCHANGED <<status, error, abortControllerRef, notifiedToolCalls, round,
                 nRounds, options, nChunks, budget, sse, fold, session, adapter, store>>

RemoveAt(seq, i) == SubSeq(seq, 1, i - 1) \o SubSeq(seq, i + 1, Len(seq))

\* use-chat.ts:526-531: the continuation of the predicate's promise
ToolThen(i) ==
  /\ i \in 1..Len(toolThen)
  /\ toolThen' = RemoveAt(toolThen, i)
  /\ IF toolThen[i]
       THEN PerformRequest(round, "tool", messages,
                           <<EvResume(0, "verdict", TRUE)>>, 0,
                           NoRequestOptions)
       ELSE /\ effects' = <<EvResume(0, "verdict", FALSE)>>
            /\ UNCHANGED <<status, error, abortControllerRef, notifiedToolCalls,
                           round, nRounds, uncaught>>
  /\ UNCHANGED <<messages, options, caller, nChunks, budget, sse, fold, session, adapter, store>>

(***************************************************************************)
(* The steps of a round: the continuations of its awaits.  A pending fetch,*)
(* body read or stream read of a round whose signal is aborted fails with  *)
(* the AbortError; what the decoder has already buffered (further lines of *)
(* the last chunk, a [DONE] line) is still delivered after an abort.       *)
(***************************************************************************)
\* use-chat.ts:316, 324-339: the response is ok and has a body
FetchOk(r) ==
  /\ round[r].pc = "fetch" /\ ~round[r].aborted
  /\ messages' = pushMessage(messages, Placeholder)
  /\ status' = "streaming"
  /\ round' = [round EXCEPT ![r].pc = "stream"]
  /\ effects' = <<EvResume(r, "response", [ok |-> TRUE, body |-> TRUE]),
                  EvPush(Placeholder), EvStatus("streaming")>>
  /\ UNCHANGED <<error, abortControllerRef, notifiedToolCalls, nRounds, toolThen,
                 options, caller, nChunks, budget, sse, fold, session, adapter, store, uncaught>>

\* use-chat.ts:324-325: the response is not ok; await response.text()
FetchNotOk(r, code) ==
  /\ round[r].pc = "fetch" /\ ~round[r].aborted
  /\ budget.failures # {}
  /\ round' = [round EXCEPT ![r].pc = "text", ![r].code = code]
  /\ effects' = <<EvResume(r, "response", [ok |-> FALSE, status |-> code])>>
  /\ UNCHANGED <<messages, status, error, abortControllerRef, notifiedToolCalls,
                 nRounds, toolThen, options, caller, nChunks, budget, sse, fold, session, adapter, store,
                 uncaught>>

\* use-chat.ts:326: the body text arrived; throw the HTTP error
TextDone(r, errorText) ==
  /\ round[r].pc = "text" /\ ~round[r].aborted
  /\ Catch(r, HttpError(round[r].code, errorText), FALSE,
           <<EvResume(r, "text", errorText)>>)
  /\ UNCHANGED <<messages, notifiedToolCalls, nRounds, toolThen, options, caller, nChunks, budget, sse, fold, session, adapter, store>>

\* use-chat.ts:329-331: the response is ok and has no body
FetchNoBody(r) ==
  /\ round[r].pc = "fetch" /\ ~round[r].aborted
  /\ budget.failures # {}
  /\ Catch(r, BodyNullError, FALSE,
           <<EvResume(r, "response", [ok |-> TRUE, body |-> FALSE])>>)
  /\ UNCHANGED <<messages, notifiedToolCalls, nRounds, toolThen, options, caller, nChunks, budget, sse, fold, session, adapter, store>>

\* fetch, response.text() or a stream read rejects with a transport failure
TransportFails(r, err) ==
  /\ InFlight(r) /\ ~round[r].aborted
  /\ err \in budget.failures
  /\ Catch(r, err, FALSE, <<EvResume(r, "rejected", err)>>)
  /\ UNCHANGED <<messages, notifiedToolCalls, nRounds, toolThen, options, caller, nChunks, budget, sse, fold, session, adapter, store>>

\* the pending operation of an aborted round rejects with the AbortError
AbortSurfaces(r) ==
  /\ InFlight(r) /\ round[r].aborted
  /\ Catch(r, AbortError, FALSE, <<EvResume(r, "rejected", AbortError)>>)
  /\ UNCHANGED <<messages, notifiedToolCalls, nRounds, toolThen, options, caller, nChunks, budget, sse, fold, session, adapter, store>>

\* use-chat.ts:346  abortController.signal.aborted
PollAborted(r) == round[r].aborted

\* use-chat.ts:345-394: the decoder yields a chunk
StreamChunk(r, chunk) ==
  /\ round[r].pc = "stream"
  /\ nChunks < budget.chunks
  /\ IF PollAborted(r)
       THEN /\ Finalize(r, TRUE, <<EvResume(r, "chunk", chunk)>>)
            /\ nChunks' = nChunks + 1
            /\ UNCHANGED <<messages, nRounds, toolThen, options, budget, sse, fold, session, adapter, store>>
       ELSE IF ~chunk.delta
         THEN /\ effects' = <<EvResume(r, "chunk", chunk)>>
              /\ nChunks' = nChunks + 1
              /\ UNCHANGED <<messages, status, error, abortControllerRef,
                             notifiedToolCalls, round, nRounds, toolThen, options,
                             caller, budget, sse, fold, session, adapter, store, uncaught>>
         ELSE LET acc == AccumulateContent(round[r].acc, chunk)
                  toolCalls == MergeFragments(round[r].toolCalls, chunk.tool_calls)
                  updatedAssistant == UpdatedAssistant(acc, toolCalls)
              IN  /\ round' = [round EXCEPT ![r].acc = acc, ![r].toolCalls = toolCalls,
                                                 ![r].deltas = Append(@, chunk)]
                  /\ nChunks' = nChunks + 1
                  /\ messages' = replaceLastMessage(messages, updatedAssistant)
                  /\ effects' = <<EvResume(r, "chunk", chunk),
                                  EvReplace(updatedAssistant)>>
                  /\ UNCHANGED <<status, error, abortControllerRef, notifiedToolCalls,
                                 nRounds, toolThen, options, caller, budget, sse, fold, session, adapter, store,
                                 uncaught>>

\* use-chat.ts:345, 396-431: the decoder ends (end of the source, or [DONE])
StreamEnd(r) ==
  /\ round[r].pc = "stream"
  /\ Finalize(r, FALSE, <<EvResume(r, "end", <<>>)>>)
  /\ UNCHANGED <<messages, nRounds, toolThen, options, nChunks, budget, sse, fold, session, adapter, store>>

\* use-chat.ts:428-435: the predicate's promise settled
AutoSendThen(r) ==
  /\ round[r].pc = "autosend"
  /\ IF PredicateFails("rejects")
       THEN /\ Catch(r, ErrPredicate, FALSE, <<EvResume(r, "predicate", ErrPredicate)>>)
            /\ UNCHANGED <<notifiedToolCalls, nRounds>>
       ELSE IF round[r].verdict
         THEN PerformRequest([round EXCEPT ![r].pc = "awaiting"], "auto", messages,
                             <<EvResume(r, "verdict", TRUE)>>, r,
                             round[r].requestOptions)
         ELSE /\ round' = Returned(r)
              /\ effects' = <<EvResume(r, "verdict", FALSE)>>
              /\ UNCHANGED <<status, error, abortControllerRef, notifiedToolCalls,
                             nRounds, uncaught>>
  /\ UNCHANGED <<messages, toolThen, options, caller, nChunks, budget, sse, fold, session, adapter, store>>

(***************************************************************************)
(* The specification.                                                      *)
(***************************************************************************)
PredicateKinds == {"absent", "lastIsTool", "always"}

\* the decoder and the accumulation runs are not started in these runs
SseIdle == [pc |-> "idle"]
FoldIdle == [pc |-> "idle"]
\* no render of a second component and no response adapter is followed either
SessionIdle == [pc |-> "idle"]
AdapterIdle == [pc |-> "idle"]
\* nor a store with its listeners
StoreIdle == [pc |-> "idle"]

Budgets ==
  { [rounds |-> MaxRounds, stops |-> MaxStops, chunks |-> MaxDeltas,
     toolResults |-> MaxToolResults, failures |-> TransportFailures,
     requestOptions |-> {NoRequestOptions}],
    [rounds |-> MaxChain, stops |-> 0, chunks |-> MaxChainDeltas,
     toolResults |-> MaxToolResults, failures |-> {},
     requestOptions |-> {NoRequestOptions}] }

\* the callbacks of a caller whose callbacks never fail
Options ==
  [sendAutomaticallyWhen : PredicateKinds, onToolCall : BOOLEAN,
   onFinish : {"ok"}, onError : {"ok"}, onToolCallFails : {"no"},
   predicateFails : {"no"}, transport : {StaticTransport}]

\* callbacks that may throw, and promises of callbacks that may reject
FaultyOptions ==
  { o \in [sendAutomaticallyWhen : {"absent", "always"}, onToolCall : BOOLEAN,
           onFinish : {"ok", "throws"}, onError : {"ok", "throws"},
           onToolCallFails : {"no", "throws", "rejects"},
           predicateFails : {"no", "throws", "rejects"},
           transport : {StaticTransport}] :
      /\ ~o.onToolCall => o.onToolCallFails = "no"
      /\ o.sendAutomaticallyWhen = "absent" => o.predicateFails = "no" }

FaultyBudgets ==
  { [rounds |-> MaxFaultyRounds, stops |-> MaxFaultyStops, chunks |-> MaxFaultyDeltas,
     toolResults |-> MaxToolResults, failures |-> {ErrFailedToFetch},
     requestOptions |-> {NoRequestOptions}] }

\* use-chat.ts:160-176: the hook after its first render
Start(opts, budgets) ==
  /\ messages = <<>>
  /\ status = "ready"
  /\ error = NoError
  /\ abortControllerRef = 0
  /\ notifiedToolCalls = {}
  /\ round = [r \in Rounds |-> IdleRound]
  /\ nRounds = 0
  /\ toolThen = <<>>
  /\ options \in opts
  /\ caller = [reported |-> {}, answered |-> {}, nStops |-> 0, nToolResults |-> 0]
  /\ nChunks = 0
  /\ budget \in budgets
  /\ effects = <<>>
  /\ uncaught = {}

\* the stream decoder and the accumulation are at rest while the hook is observed
Init ==
  Start(Options, Budgets)
  /\ sse = SseIdle /\ fold = FoldIdle /\ session = SessionIdle /\ adapter = AdapterIdle /\ store = StoreIdle

InitFaulty ==
  Start(FaultyOptions, FaultyBudgets)
  /\ sse = SseIdle /\ fold = FoldIdle /\ session = SessionIdle /\ adapter = AdapterIdle /\ store = StoreIdle

Next ==
  \/ \E text \in UserTexts, requestOptions \in RequestOptions :
       SendMessage(text, requestOptions)
  \/ Stop
  \/ \E id \in {StrT1, StrT2}, result \in ResultValues : AddToolResult(id, result)
  \/ \E i \in 1..MaxToolResults : ToolThen(i)
  \/ \E r \in Rounds : FetchOk(r)
  \/ \E r \in Rounds, code \in HttpCodes : FetchNotOk(r, code)
  \/ \E r \in Rounds, errorText \in BodyTexts : TextDone(r, errorText)
  \/ \E r \in Rounds : FetchNoBody(r)
  \/ \E r \in Rounds, err \in TransportFailures : TransportFails(r, err)
  \/ \E r \in Rounds : AbortSurfaces(r)
  \/ \E r \in Rounds, chunk \in Chunks : StreamChunk(r, chunk)
  \/ \E r \in Rounds : StreamEnd(r)
  \/ \E r \in Rounds : AutoSendThen(r)

Spec == Init /\ [][Next]_vars

\* the same hook, given callbacks that fail
SpecFaulty == InitFaulty /\ [][Next]_vars

\* The pending operation of a round in flight (fetch, response.text(), a read
\* of the body) settles: it completes or it rejects.
Settles(r) ==
  \/ FetchOk(r)
  \/ \E code \in HttpCodes : FetchNotOk(r, code)
  \/ \E errorText \in BodyTexts : TextDone(r, errorText)
  \/ FetchNoBody(r)
  \/ \E err \in TransportFailures : TransportFails(r, err)
  \/ AbortSurfaces(r)
  \/ \E chunk \in Chunks : StreamChunk(r, chunk)
  \/ StreamEnd(r)

\* The continuation of a settled promise of a callback runs (a microtask).
Continues ==
  \/ \E r \in Rounds : AutoSendThen(r)
  \/ \E i \in 1..MaxToolResults : ToolThen(i)

\* the hook with a network whose calls and reads all settle, and a job queue
\* that runs: what the caller does stays free
Fairness ==
  /\ \A r \in Rounds : WF_vars(Settles(r))
  /\ WF_vars(Continues)

\* the runs followed to their end: a caller with a predicate, at most
\* MaxLiveRounds rounds, one stop, one chunk, one tool result
MaxLiveRounds == 2

LiveOptions ==
  [sendAutomaticallyWhen : {"lastIsTool", "always"}, onToolCall : {TRUE},
   onFinish : {"ok"}, onError : {"ok"}, onToolCallFails : {"no"},
   predicateFails : {"no"}, transport : {StaticTransport}]

LiveBudgets ==
  { [rounds |-> MaxLiveRounds, stops |-> 1, chunks |-> 1,
     toolResults |-> MaxToolResults, failures |-> {ErrFailedToFetch},
     requestOptions |-> {NoRequestOptions}] }

InitLive ==
  Start(LiveOptions, LiveBudgets)
  /\ sse = SseIdle /\ fold = FoldIdle /\ session = SessionIdle /\ adapter = AdapterIdle /\ store = StoreIdle

SpecLive == InitLive /\ [][Next]_vars /\ Fairness

\* the transports explored: each property static or a resolver, the headers
\* and the body also absent, the headers a plain object or a Headers instance
Transports ==
  { t \in [api : {"static", "resolver"}, headers : {"absent", "static", "resolver"},
           headersForm : {"record", "Headers"},
           credentials : {"absent", "static", "resolver"},
           body : {"absent", "static", "resolver"},
           prepareRequestBody : BOOLEAN] :
      /\ t.headers = "absent" => t.headersForm = "record"
      /\ t.credentials = (IF t.api = "resolver" THEN "resolver" ELSE "absent")
      /\ t.body = t.headers }

TransportOptions ==
  [sendAutomaticallyWhen : {"always"}, onToolCall : {TRUE},
   onFinish : {"ok"}, onError : {"ok"}, onToolCallFails : {"no"},
   predicateFails : {"no"}, transport : Transports]

MaxTransportRounds == 2

TransportBudgets ==
  { [rounds |-> MaxTransportRounds, stops |-> 1, chunks |-> 1,
     toolResults |-> MaxToolResults, failures |-> {ErrFailedToFetch},
     requestOptions |-> RequestOptions] }

InitTransport ==
  Start(TransportOptions, TransportBudgets)
  /\ sse = SseIdle /\ fold = FoldIdle /\ session = SessionIdle /\ adapter = AdapterIdle /\ store = StoreIdle

\* the same hook, over the transports and the per-call options
SpecTransport == InitTransport /\ [][Next]_vars

(***************************************************************************)
(* The stream decoder, parseSSEStream (parse-sse-stream.ts).  One run of the  *)
(* async generator over a source whose text is cut into chunks of any      *)
(* size.  The text holds single-byte characters only, so the chunks the    *)
(* TextDecoderStream hands to the reader are the chunks of the source.     *)
(***************************************************************************)
MaxSseLines == 2

\* the characters String.prototype.trim removes, and JSON.parse skips
WhiteSpace == {" ", "\t", "\r", "\n"}

RECURSIVE TrimStart(_)
TrimStart(s) ==
  IF Len(s) > 0 /\ Head(s) \in WhiteSpace THEN TrimStart(Tail(s)) ELSE s

RECURSIVE TrimEnd(_)
TrimEnd(s) ==
  IF Len(s) > 0 /\ s[Len(s)] \in WhiteSpace
    THEN TrimEnd(SubSeq(s, 1, Len(s) - 1)) ELSE s

Trim(s) == TrimEnd(TrimStart(s))

StartsWith(s, prefix) ==
  Len(s) >= Len(prefix) /\ SubSeq(s, 1, Len(prefix)) = prefix

Slice(s, n) == SubSeq(s, n + 1, Len(s))

\* parse-sse-stream.ts:23: buffer.split("\n")
RECURSIVE Split(_)
Split(s) ==
  IF \A i \in 1..Len(s) : s[i] # "\n" THEN <<s>>
  ELSE LET k == CHOOSE i \in 1..Len(s) :
                  s[i] = "\n" /\ \A j \in 1..(i - 1) : s[j] # "\n"
       IN <<SubSeq(s, 1, k - 1)>> \o Split(SubSeq(s, k + 1, Len(s)))

StrData == <<"d", "a", "t", "a", ":", " ">>
StrDone == <<"[", "D", "O", "N", "E", "]">>

\* JSON.parse on the payloads of the streams explored: the documents 1, 2,
\* {} and two strings (with white space around them) parse, every other
\* payload is a SyntaxError
JsonValues ==
  {JNumber(1), JNumber(2), JObject(<<>>), JString(StrDone), JString(<<"a", "\n">>)}
SyntaxError == [t |-> "SyntaxError", v |-> <<>>]
JSONParse(text) ==
  LET doc == Trim(text)
      hits == {v \in JsonValues : JSONStringify(v) = doc}
  IN IF hits = {} THEN SyntaxError ELSE CHOOSE v \in hits : TRUE

\* parse-sse-stream.ts:27-36: the body of the for loop for one line
ProcessLineMutant(line) ==
  LET trimmed == Trim(line)
      data == Slice(trimmed, 6)
  IN IF StartsWith(trimmed, StrData) /\ JSONParse(data) # SyntaxError
       THEN [kind |-> "yield", value |-> JSONParse(data)]
       ELSE [kind |-> "skip", value |-> SyntaxError]

ProcessLine(line) ==
  LET trimmed == Trim(line)
      data == Slice(trimmed, 6)
  IN IF StartsWith(trimmed, StrData)
       THEN IF data = StrDone THEN [kind |-> "return", value |-> SyntaxError]
            ELSE IF JSONParse(data) # SyntaxError
              THEN [kind |-> "yield", value |-> JSONParse(data)]
            ELSE [kind |-> "skip", value |-> SyntaxError]
       ELSE [kind |-> "skip", value |-> SyntaxError]

\* parse-sse-stream.ts:40-50: what the remaining buffer yields when the source ended
FlushMutant(buffer) == <<>>

Flush(buffer) ==
  LET data == Slice(Trim(buffer), 6)
  IN IF /\ StartsWith(Trim(buffer), StrData)
        /\ data # StrDone
        /\ JSONParse(data) # SyntaxError
       THEN <<JSONParse(data)>> ELSE <<>>

\* parse-sse-stream.ts:23-24: lines.pop() || "" keeps the unterminated tail
CarryMutant(lines) == <<>>

Carry(lines) == lines[Len(lines)]

\* parse-sse-stream.ts:24: what lines.pop() leaves in lines, the terminated lines
FrontMutant(lines) == lines

Front(lines) == SubSeq(lines, 1, Len(lines) - 1)

\* parse-sse-stream.ts:51-53: the finally block
ReleaseLockMutant(s) == [s EXCEPT !.pc = "done"]

ReleaseLock(s) == [s EXCEPT !.pc = "done", !.released = @ + 1]

\* the lines a source may carry
SseLines ==
  { <<"d", "a", "t", "a", ":", " ", "1">>,
    <<"d", "a", "t", "a", ":", " ", "2">>,
    <<"d", "a", "t", "a", ":", " ", "{">>,
    StrData \o StrDone,
    <<":">>,
    <<" ", "d", "a", "t", "a", ":", " ", "2", "\r">>,
    <<"d", "a", "t", "a", ":", "1">>,
    <<>> }

\* the sizes of the chunks a source may deliver: up to a whole text at once
ChunkSizes == 1..(MaxSseLines * 13)

RECURSIVE Join(_)
Join(lines) ==
  IF Len(lines) = 0 THEN <<>>
  ELSE IF Len(lines) = 1 THEN lines[1]
  ELSE lines[1] \o <<"\n">> \o Join(Tail(lines))

\* the texts of the sources: up to MaxSseLines lines, the last one terminated or not
SseTexts ==
  UNION { { Join(ls), Join(ls) \o <<"\n">> } :
            ls \in UNION { [1..n -> SseLines] : n \in 0..MaxSseLines } }

HookAtRest ==
  Start({[sendAutomaticallyWhen |-> "absent", predicateFails |-> "no",
          onFinish |-> "ok", onError |-> "ok", onToolCallFails |-> "no",
          onToolCall |-> FALSE, transport |-> StaticTransport]},
        {[rounds |-> 0, stops |-> 0, chunks |-> 0, toolResults |-> 0,
          failures |-> {}, requestOptions |-> {}]})

HookUnchanged ==
  UNCHANGED <<messages, status, error, abortControllerRef, notifiedToolCalls,
              round, nRounds, toolThen, options, caller, nChunks, budget,
              effects, uncaught>>

\* a step of the decoder leaves the hook and the accumulation alone
DecoderOnly == HookUnchanged /\ UNCHANGED <<fold, session, adapter, store>>

\* parse-sse-stream.ts:11-15: the generator started: reader acquired, buffer empty,
\* the first read pending
SseStart(text) ==
  [pc |-> "read", text |-> text, source |-> text, buffer |-> <<>>,
   lines |-> <<>>, out |-> <<>>, reads |-> 0, released |-> 0,
   outcome |-> "running"]

\* parse-sse-stream.ts:19-24: reader.read() resolves with the next n characters
SseRead(n) ==
  /\ DecoderOnly
  /\ sse.pc = "read"
  /\ n \in 1..Len(sse.source)
  /\ LET lines == Split(sse.buffer \o SubSeq(sse.source, 1, n))
     IN sse' = [sse EXCEPT !.source = Slice(@, n),
                           !.reads = @ + 1,
                           !.buffer = Carry(lines),
                           !.lines = Front(lines),
                           !.pc = IF Len(lines) > 1 THEN "lines" ELSE "read"]

\* parse-sse-stream.ts:19-20, 40-53: reader.read() resolves with done; the
\* remaining buffer is processed; the generator ends unless that yields
SseReadDone ==
  /\ DecoderOnly
  /\ sse.pc = "read"
  /\ sse.source = <<>>
  /\ LET ended == [sse EXCEPT !.reads = @ + 1]
         last == Flush(sse.buffer)
     IN sse' = IF last = <<>>
                 THEN ReleaseLock([ended EXCEPT !.outcome = "ended"])
                 ELSE [ended EXCEPT !.out = @ \o last, !.pc = "flushed"]

\* parse-sse-stream.ts:19, 51-53: reader.read() rejects; finally, then the
\* generator throws
SseReadFails ==
  /\ DecoderOnly
  /\ sse.pc = "read"
  /\ sse' = ReleaseLock([sse EXCEPT !.reads = @ + 1, !.outcome = "threw"])

\* parse-sse-stream.ts:26-37: the next line of the chunk
SseLine ==
  /\ DecoderOnly
  /\ sse.pc = "lines"
  /\ LET step == ProcessLine(Head(sse.lines))
         rest == [sse EXCEPT !.lines = Tail(@)]
         on == IF rest.lines = <<>> THEN "read" ELSE "lines"
     IN sse' = CASE step.kind = "return" ->
                      ReleaseLock([rest EXCEPT !.outcome = "ended"])
                 [] step.kind = "yield" ->
                      [rest EXCEPT !.out = Append(@, step.value), !.pc = "yield"]
                 [] OTHER -> [rest EXCEPT !.pc = on]

\* parse-sse-stream.ts:32, 45: the consumer asks for the next value: the
\* generator resumes after its yield
SseResume ==
  /\ DecoderOnly
  /\ sse.pc \in {"yield", "flushed"}
  /\ sse' = IF sse.pc = "flushed"
              THEN ReleaseLock([sse EXCEPT !.outcome = "ended"])
              ELSE [sse EXCEPT !.pc = IF sse.lines = <<>> THEN "read" ELSE "lines"]

\* parse-sse-stream.ts:32, 45, 51-53: the consumer leaves its for await loop:
\* return() resumes the generator at its yield with a return, which runs the
\* finally block
SseReturn ==
  /\ DecoderOnly
  /\ sse.pc \in {"yield", "flushed"}
  /\ sse' = ReleaseLock([sse EXCEPT !.outcome = "returned"])

InitSSE ==
  /\ HookAtRest /\ fold = FoldIdle /\ session = SessionIdle /\ adapter = AdapterIdle /\ store = StoreIdle
  /\ sse \in {SseStart(text) : text \in SseTexts}

NextSSE ==
  \/ \E n \in ChunkSizes : SseRead(n)
  \/ SseReadDone
  \/ SseReadFails
  \/ SseLine
  \/ SseResume
  \/ SseReturn

SpecSSE == InitSSE /\ [][NextSSE]_vars

(***************************************************************************)
(* The accumulation of the streaming loop (use-chat.ts:341-394) on its     *)
(* own: the deltas of a stream folded into the assistant message.  Either  *)
(* two streams of text deltas are folded side by side, or one stream of    *)
(* tool-call fragments is.                                                 *)
(***************************************************************************)
MaxFoldDeltas == 3
MaxIndex == 1

\* use-chat.ts:342-343, 334-338: before the first chunk; the log ends with the
\* placeholder
FoldStart ==
  [n |-> 0, deltas |-> <<>>, acc |-> <<>>, toolCalls |-> <<>>,
   message |-> Placeholder]

\* use-chat.ts:351-393: the body of the loop for one chunk
FoldChunk(run, chunk) ==
  IF ~chunk.delta THEN [run EXCEPT !.n = @ + 1]
  ELSE LET acc == AccumulateContent(run.acc, chunk)
           toolCalls == MergeFragments(run.toolCalls, chunk.tool_calls)
       IN [n |-> run.n + 1, deltas |-> Append(run.deltas, chunk), acc |-> acc,
           toolCalls |-> toolCalls, message |-> UpdatedAssistant(acc, toolCalls)]

\* chunks of a stream of text: no delta, a delta without content, text
TextChunks ==
  { NoDelta, Delta(<<>>, <<>>), Delta(StrA, <<>>), Delta(StrB, <<>>),
    Delta(StrA \o StrB, <<>>) }

\* chunks of a stream of tool-call fragments
Fragments ==
  { Fragment(i, id, name, arguments) :
      i \in 0..MaxIndex, id \in {<<>>, StrT1, StrT2}, name \in {<<>>, StrF},
      arguments \in {<<>>, StrArgs} }

ToolChunks == { Delta(<<>>, <<f>>) : f \in Fragments }

FoldLeft(chunk) ==
  /\ fold.pc = "folding"
  /\ fold.left.n < MaxFoldDeltas
  /\ chunk \in (IF fold.pair THEN TextChunks ELSE ToolChunks)
  /\ fold' = [fold EXCEPT !.left = FoldChunk(@, chunk)]
  /\ HookUnchanged /\ UNCHANGED <<sse, session, adapter, store>>

FoldRight(chunk) ==
  /\ fold.pc = "folding"
  /\ fold.pair
  /\ fold.right.n < MaxFoldDeltas
  /\ chunk \in TextChunks
  /\ fold' = [fold EXCEPT !.right = FoldChunk(@, chunk)]
  /\ HookUnchanged /\ UNCHANGED <<sse, session, adapter, store>>

InitFold ==
  /\ HookAtRest
  /\ sse = SseIdle
  /\ session = SessionIdle
  /\ adapter = AdapterIdle /\ store = StoreIdle
  /\ fold \in { [pc |-> "folding", pair |-> p, left |-> FoldStart,
                 right |-> FoldStart] : p \in BOOLEAN }

NextFold ==
  \/ \E chunk \in TextChunks \cup ToolChunks : FoldLeft(chunk)
  \/ \E chunk \in TextChunks : FoldRight(chunk)

SpecFold == InitFold /\ [][NextFold]_vars

(***************************************************************************)
(* The refs of the hook over the renders of its component                  *)
(* (use-chat.ts:94-100, 160-176) and the stores they point to              *)
(* (DedalusChatState, use-chat.ts:557-587, 598-601).  A store is an object: *)
(* its identity is its position in session.stores.                         *)
(***************************************************************************)
MaxRenders == 3
MaxStoreWrites == 2

\* the ids a render may pass: none, the empty string, two names
EmptyId == <<>>
IdA == <<"a">>
IdB == <<"b">>
ProvidedIds == {Undefined, EmptyId, IdA, IdB}

\* options.messages of a render: absent, or a log of one user message
NoInitialMessages == [present |-> FALSE, log |-> <<>>]
InitialMessages ==
  {NoInitialMessages, [present |-> TRUE, log |-> <<UserMessage(<<"h","i">>)>>]}

RenderProps == [id : ProvidedIds, messages : InitialMessages]

\* the value of the n-th call of generateId
Digits == <<"1","2","3","4","5","6","7","8","9">>
GeneratedId(n) == <<"g", "-", Digits[n]>>

\* what `if (v)` takes for a string or undefined
Truthy(v) == v # Undefined /\ v # EmptyId

\* use-chat.ts:557-568: constructor(initialMessages = []), with the field
\* initialisers of #status and #error
NewChatState(initialMessages) ==
  [messages |-> IF initialMessages.present THEN initialMessages.log ELSE <<>>,
   status |-> "ready",
   error |-> NoError]

\* the component left alone: nothing but the hook of the other sections runs
SessionOnly == HookUnchanged /\ UNCHANGED <<sse, fold, adapter, store>>

\* use-chat.ts:160-166, the first render: the arguments of useRef become the refs
Mount(props) ==
  [pc |-> "mounted",
   props |-> props,
   idRef |-> IF props.id = Undefined THEN GeneratedId(1) ELSE props.id,
   generated |-> IF props.id = Undefined THEN 1 ELSE 0,
   stores |-> <<NewChatState(props.messages)>>,
   stateRef |-> 1,
   notified |-> {},
   renders |-> 1,
   writes |-> 0]

\* use-chat.ts:160-176, a later render: the arguments of useRef are evaluated
\* and dropped (generateId is called when no id is passed, a store is built
\* and never referenced), then the id is compared
Switches(props, idRef) == Truthy(props.id) /\ props.id # idRef

Render(props) ==
  /\ session.pc = "mounted"
  /\ session.renders < MaxRenders
  /\ session' =
       [session EXCEPT
          !.props = props,
          !.renders = @ + 1,
          !.generated = IF props.id = Undefined THEN @ + 1 ELSE @,
          !.idRef = IF Switches(props, session.idRef) THEN props.id ELSE @,
          !.stores = IF Switches(props, session.idRef)
                     THEN Append(@, NewChatState(props.messages)) ELSE @,
          !.stateRef = IF Switches(props, session.idRef)
                       THEN Len(session.stores) + 1 ELSE @,
          !.notified = IF Switches(props, session.idRef) THEN {} ELSE @]
  /\ SessionOnly

\* the stores a closure of some render still holds: the current one and the
\* ones of the earlier sessions
StoreIds == 1..MaxRenders

\* use-chat.ts:598-601
PushMessage(s, message) ==
  /\ session.pc = "mounted"
  /\ session.writes < MaxStoreWrites
  /\ s <= Len(session.stores)
  /\ session' = [session EXCEPT !.writes = @ + 1,
                                !.stores[s].messages = Append(@, message)]
  /\ SessionOnly

\* use-chat.ts:574-578
SetStatus(s, newStatus) ==
  /\ session.pc = "mounted"
  /\ session.writes < MaxStoreWrites
  /\ s <= Len(session.stores)
  /\ session' = [session EXCEPT !.writes = @ + 1,
                                !.stores[s].status = newStatus]
  /\ SessionOnly

\* use-chat.ts:584-587
SetError(s, newError) ==
  /\ session.pc = "mounted"
  /\ session.writes < MaxStoreWrites
  /\ s <= Len(session.stores)
  /\ session' = [session EXCEPT !.writes = @ + 1,
                                !.stores[s].error = newError]
  /\ SessionOnly

\* use-chat.ts:408: a reported tool call id enters the set of the ref
AddNotified(id) ==
  /\ session.pc = "mounted"
  /\ session.writes < MaxStoreWrites
  /\ session' = [session EXCEPT !.writes = @ + 1, !.notified = @ \cup {id}]
  /\ SessionOnly

InitSession ==
  /\ HookAtRest
  /\ sse = SseIdle /\ fold = FoldIdle /\ adapter = AdapterIdle /\ store = StoreIdle
  /\ session \in { Mount(props) : props \in RenderProps }

NextSession ==
  \/ \E props \in RenderProps : Render(props)
  \/ \E s \in StoreIds : PushMessage(s, UserMessage(<<"y","o">>))
  \/ \E s \in StoreIds, newStatus \in {"submitted", "error"} : SetStatus(s, newStatus)
  \/ \E s \in StoreIds : SetError(s, ErrFailedToFetch)
  \/ AddNotified("call-1")

SpecSession == InitSession /\ [][NextSession]_vars

(***************************************************************************)
(* The response adapters of the server side (stream-response.ts):          *)
(* createStreamResponse (72-109) and pipeStreamToResponse (135-167), each  *)
(* followed over one call.  adapter.head and adapter.out are what reached  *)
(* the response (res.writeHead / res.write, or controller.enqueue), and    *)
(* adapter.released lists the calls of res.end, controller.close and       *)
(* controller.error; adapter.thrown is what the call threw or rejected     *)
(* with, adapter.failure what ended the loop over the source.              *)
(***************************************************************************)
MaxAdapterChunks == 2

\* a chunk JSON.stringify throws on (a BigInt field, a cycle)
JBigInt == [t |-> "bigint", v |-> 1]
AdapterChunks == {JNumber(1), JObject(<<>>), JBigInt}

ErrSource == Thrown("Error", "Error", <<"s","o","u","r","c","e">>)
ErrStringify == Thrown("TypeError", "TypeError", <<"B","i","g","I","n","t">>)
ErrNotStreaming == Thrown("Error", "Error", <<"s","t","r","e","a","m",":"," ","t","r","u","e">>)
ErrInvalidHeader == Thrown("TypeError", "TypeError", <<"h","e","a","d","e","r">>)

\* stream-response.ts:15-17: the results an adapter may be given: a value that
\* is no async iterable (a plain object, null, an array), or a source that
\* yields chunks and then completes or fails
NotIterable == [iterable |-> FALSE, chunks |-> <<>>, ending |-> "none"]
AdapterResults ==
  {NotIterable} \cup
  { [iterable |-> TRUE, chunks |-> cs, ending |-> e] :
      cs \in UNION { [1..n -> AdapterChunks] : n \in 0..MaxAdapterChunks },
      e \in {"done", "fails"} }

isAsyncIterable(value) == value.iterable

\* options.headers: absent, a header, a header whose value holds a line break
\* (res.writeHead and the Response constructor throw on it)
AdapterHeaders == {"absent", "valid", "invalid"}

SseHeaders(headers) ==
  [ct |-> <<"text/event-stream">>, cc |-> <<"no-cache">>, conn |-> <<"keep-alive">>,
   extra |-> headers]

DataFrameNoBreak(chunk) == StrData \o JSONStringify(chunk)

\* stream-response.ts:90 and 161: `data: ${JSON.stringify(chunk)}\n\n`
DataFrame(chunk) == StrData \o JSONStringify(chunk) \o <<"\n", "\n">>

\* stream-response.ts:93 and 163
DoneFrame == StrData \o StrDone \o <<"\n", "\n">>

AdapterOnly == HookUnchanged /\ UNCHANGED <<sse, fold, session, store>>

\* the call of an adapter, up to its first await; pc is "failed" when the call
\* is over before the loop over the source, "done" when the loop is over
AdapterCall(kind, result, headers) ==
  LET base == [pc |-> "iterating", kind |-> kind, result |-> result,
               headers |-> headers, pos |-> 0, head |-> <<>>, out |-> <<>>,
               released |-> <<>>, outcome |-> "pending", thrown |-> NoError,
               failure |-> NoError]
  IN IF ~isAsyncIterable(result)
       THEN \* 76-80 and 144-148
            [base EXCEPT !.pc = "failed",
                         !.outcome = IF kind = "create" THEN "threw" ELSE "rejected",
                         !.thrown = ErrNotStreaming]
     ELSE IF kind = "pipe"
       THEN IF headers = "invalid"
              THEN \* 152-157: res.writeHead throws, outside the try
                   [base EXCEPT !.pc = "failed", !.outcome = "rejected",
                                !.thrown = ErrInvalidHeader]
              ELSE [base EXCEPT !.head = <<SseHeaders(headers)>>]
     ELSE \* 85-108: start(controller) has run up to its first await when the
          \* Response is built
          IF headers = "invalid"
            THEN [base EXCEPT !.outcome = "threw", !.thrown = ErrInvalidHeader]
            ELSE [base EXCEPT !.head = <<SseHeaders(headers)>>, !.outcome = "returned"]

\* an exit of the loop by a throw: 95-97 (catch: controller.error) or
\* 164-166 (finally: res.end, the promise rejects)
AdapterThrow(a, e) ==
  IF a.kind = "create"
    THEN [a EXCEPT !.pc = "done", !.released = Append(@, "error"), !.failure = e]
    ELSE [a EXCEPT !.pc = "done", !.released = Append(@, "end"), !.failure = e,
                   !.outcome = "rejected", !.thrown = e]

\* 88-92 and 160-162: the source yields its next chunk
AdapterChunk ==
  /\ adapter.pc = "iterating"
  /\ adapter.pos < Len(adapter.result.chunks)
  /\ LET chunk == adapter.result.chunks[adapter.pos + 1]
     IN adapter' =
          IF chunk = JBigInt
            THEN AdapterThrow([adapter EXCEPT !.pos = @ + 1], ErrStringify)
            ELSE [adapter EXCEPT !.pos = @ + 1, !.out = Append(@, DataFrame(chunk))]
  /\ AdapterOnly

\* 93-94 and 163-166: the source completes
AdapterDone ==
  /\ adapter.pc = "iterating"
  /\ adapter.pos = Len(adapter.result.chunks)
  /\ adapter.result.ending = "done"
  /\ adapter' =
       IF adapter.kind = "create"
         THEN [adapter EXCEPT !.pc = "done", !.out = Append(@, DoneFrame),
                              !.released = Append(@, "close")]
         ELSE [adapter EXCEPT !.pc = "done", !.out = Append(@, DoneFrame),
                              !.released = Append(@, "end"),
                              !.outcome = "fulfilled"]
  /\ AdapterOnly

\* 95-97 and 164-166: the source fails
AdapterFails ==
  /\ adapter.pc = "iterating"
  /\ adapter.pos = Len(adapter.result.chunks)
  /\ adapter.result.ending = "fails"
  /\ adapter' = AdapterThrow(adapter, ErrSource)
  /\ AdapterOnly

InitAdapter ==
  /\ HookAtRest
  /\ sse = SseIdle /\ fold = FoldIdle /\ session = SessionIdle /\ store = StoreIdle
  /\ adapter \in { AdapterCall(kind, result, headers) :
                     kind \in {"create", "pipe"}, result \in AdapterResults,
                     headers \in AdapterHeaders }

NextAdapter ==
  \/ AdapterChunk
  \/ AdapterDone
  \/ AdapterFails

SpecAdapter == InitAdapter /\ [][NextAdapter]_vars

(***************************************************************************)
(* A response adapter and the decoder end to end: what the adapter wrote   *)
(* (stream-response.ts:85-97, 159-166) is the text of the source of        *)
(* parseSSEStream, cut into chunks of any size.  When the source of        *)
(* pipeStreamToResponse fails, res.end() ends the body after the frames    *)
(* written; the body of createStreamResponse is put in error instead, so   *)
(* it is followed only when its source completes.                          *)
(***************************************************************************)
\* the chunks of a source: a number, an object, the string "[DONE]" and a
\* string with a line break
RoundTripChunks ==
  {JNumber(1), JObject(<<>>), JString(StrDone), JString(<<"a", "\n">>)}

RoundTripResults ==
  { [iterable |-> TRUE, chunks |-> cs, ending |-> e] :
      cs \in UNION { [1..n -> RoundTripChunks] : n \in 0..MaxAdapterChunks },
      e \in {"done", "fails"} }

\* the sizes of the network chunks: from one character to the longest text
RoundTripSizes == 1..((MaxAdapterChunks + 1) * 14)

RECURSIVE Flatten(_)
Flatten(frames) ==
  IF Len(frames) = 0 THEN <<>> ELSE Head(frames) \o Flatten(Tail(frames))

\* the body the adapter wrote reaches the client: parseSSEStream(response.body)
Transmit ==
  /\ adapter.pc = "done"
  /\ adapter.kind = "pipe" \/ adapter.failure = NoError
  /\ sse.pc = "idle"
  /\ sse' = SseStart(Flatten(adapter.out))
  /\ HookUnchanged /\ UNCHANGED <<fold, session, adapter, store>>

InitRoundTrip ==
  /\ HookAtRest
  /\ sse = SseIdle /\ fold = FoldIdle /\ session = SessionIdle /\ store = StoreIdle
  /\ adapter \in { AdapterCall(kind, result, "absent") :
                     kind \in {"create", "pipe"}, result \in RoundTripResults }

NextRoundTrip ==
  \/ AdapterChunk
  \/ AdapterDone
  \/ AdapterFails
  \/ Transmit
  \/ \E n \in RoundTripSizes : SseRead(n)
  \/ SseReadDone
  \/ SseLine
  \/ SseResume

SpecRoundTrip == InitRoundTrip /\ [][NextRoundTrip]_vars

(***************************************************************************)
(* One DedalusChatState (use-chat.ts:557-679) as a heap, with its          *)
(* listeners and the writer of the streaming loop (use-chat.ts:333-393).   *)
(* store.arrays holds every array the store has built (an array is its     *)
(* position), store.messagesRef is #messages; store.entries holds the      *)
(* tool-call objects, and a message refers to them by position.            *)
(* store.notified lists the listener calls of the last operation, each     *)
(* with the snapshot the listener reads inside the call; store.values is   *)
(* what each array held, entries read through, when it was installed.      *)
(***************************************************************************)
MaxStoreOps == 4
MaxSubscriptions == 2
MaxListenedOps == 2

\* two families of runs: few writes among many changes of the listeners, and
\* longer runs of writes with one subscription
StoreBudgets ==
  { [ops |-> MaxListenedOps, subscriptions |-> MaxSubscriptions],
    [ops |-> MaxStoreOps, subscriptions |-> 1] }

Listeners == {"l1", "l2"}
Facets == {"messages", "status", "error"}

\* the deltas of the stream: text, the head of a tool call, its arguments
StoreDeltas ==
  { Delta(StrA, <<>>),
    Delta(<<>>, <<Fragment(0, StrT1, StrF, <<>>)>>),
    Delta(<<>>, <<Fragment(0, <<>>, <<>>, StrArgs)>>) }

\* a message with its tool-call entries read through the heap
DerefMessage(entries, m) ==
  IF "tool_calls" \in DOMAIN m
    THEN [m EXCEPT !.tool_calls =
            [i \in 1..Len(m.tool_calls) |-> ToolCallOf(entries[m.tool_calls[i]])]]
    ELSE m

DerefLog(entries, log) == [i \in 1..Len(log) |-> DerefMessage(entries, log[i])]

\* use-chat.ts:613 structuredClone(message): the entries are copied to new objects
structuredClone(entries, m) ==
  IF "tool_calls" \in DOMAIN m
    THEN [entries |-> entries \o [i \in 1..Len(m.tool_calls) |-> entries[m.tool_calls[i]]],
          message |-> [m EXCEPT !.tool_calls =
                         [i \in 1..Len(m.tool_calls) |-> Len(entries) + i]]]
    ELSE [entries |-> entries, message |-> m]

\* use-chat.ts:650-666: the snapshot accessors
getMessagesSnapshot(st) == st.messagesRef
getStatusSnapshot(st) == st.status
getErrorSnapshot(st) == st.error

\* a listener called back reads the snapshot of its facet
Delivery(st, facet, l) ==
  CASE facet = "messages" ->
         [facet |-> facet, listener |-> l, array |-> getMessagesSnapshot(st)]
    [] facet = "status" ->
         [facet |-> facet, listener |-> l, status |-> getStatusSnapshot(st)]
    [] facet = "error" ->
         [facet |-> facet, listener |-> l, error |-> getErrorSnapshot(st)]

NotifyBeforeInstall(before, st, facet) ==
  [st EXCEPT !.notified =
     @ \o [i \in 1..Len(st.callbacks[facet]) |->
             Delivery(before, facet, st.callbacks[facet][i])]]

\* use-chat.ts:668-678: forEach over the Set of the facet, in insertion order;
\* before is the store as it was when the operation began
Notify(before, st, facet) ==
  [st EXCEPT !.notified =
     @ \o [i \in 1..Len(st.callbacks[facet]) |->
             Delivery(st, facet, st.callbacks[facet][i])]]

\* this.#messages = a new array holding log, and the notification
InstallLog(st, log) ==
  LET a == Len(st.arrays) + 1
  IN Notify(st,
            [st EXCEPT !.arrays = Append(@, log),
                       !.values = Append(@, DerefLog(st.entries, log)),
                       !.messagesRef = a,
                       !.published = IF Len(st.callbacks["messages"]) > 0
                                       THEN @ \cup {a} ELSE @],
            "messages")

StatusSetterAlways(st, newStatus) ==
  Notify(st, [st EXCEPT !.status = newStatus], "status")

\* use-chat.ts:574-578
StatusSetter(st, newStatus) ==
  IF st.status = newStatus THEN st
  ELSE Notify(st, [st EXCEPT !.status = newStatus], "status")

\* use-chat.ts:584-587
ErrorSetter(st, newError) == Notify(st, [st EXCEPT !.error = newError], "error")

\* use-chat.ts:593-596: [...newMessages]
MessagesSetter(st, newMessages) == InstallLog(st, newMessages)

\* use-chat.ts:598-601: [...this.#messages, message]
StorePush(st, message) == InstallLog(st, Append(st.arrays[st.messagesRef], message))

\* use-chat.ts:603-606: slice(0, -1)
StorePop(st) ==
  LET log == st.arrays[st.messagesRef]
  IN InstallLog(st, SubSeq(log, 1, Len(log) - 1))

StoreReplaceLastAppends(st, message) == StorePush(st, message)

\* use-chat.ts:608-615
StoreReplaceLast(st, message) ==
  LET log == st.arrays[st.messagesRef]
      clone == structuredClone(st.entries, message)
  IN IF Len(log) = 0 THEN StorePush(st, message)
     ELSE InstallLog([st EXCEPT !.entries = clone.entries],
                     Append(SubSeq(log, 1, Len(log) - 1), clone.message))

\* use-chat.ts:343, 360-383 on the heap: toolCalls holds positions of
\* store.entries (0: a hole); an entry that exists is changed in place
MergeOnHeap(st, frags) ==
  LET old == [i \in 1..Len(st.toolCalls) |->
                IF st.toolCalls[i] = 0 THEN Hole ELSE st.entries[st.toolCalls[i]]]
      new == MergeFragments(old, frags)
      kept(i) == i <= Len(st.toolCalls) /\ st.toolCalls[i] # 0
      fresh == { i \in 1..Len(new) : ~kept(i) /\ ~new[i].hole }
      rank(i) == Cardinality({ j \in fresh : j <= i })
      addr(i) == IF kept(i) THEN st.toolCalls[i]
                 ELSE IF i \in fresh THEN Len(st.entries) + rank(i) ELSE 0
      at(k) == CHOOSE i \in 1..Len(new) : addr(i) = k
  IN [st EXCEPT !.toolCalls = [i \in 1..Len(new) |-> addr(i)],
                !.entries = [k \in 1..(Len(st.entries) + Cardinality(fresh)) |->
                               IF \E i \in 1..Len(new) : addr(i) = k
                                 THEN new[at(k)] ELSE st.entries[k]]]

\* toolCalls.filter(Boolean) on the heap: the same objects, in a new array
FilterOnHeap(toolCalls) == SelectSeq(toolCalls, LAMBDA k : k # 0)

\* use-chat.ts:386-392 on the heap
UpdatedOnHeap(st) ==
  IF Len(st.toolCalls) > 0
    THEN [role |-> "assistant",
          content |-> IF st.accumulatedContent # <<>> THEN st.accumulatedContent ELSE Null,
          tool_calls |-> FilterOnHeap(st.toolCalls)]
    ELSE [role |-> "assistant",
          content |-> IF st.accumulatedContent # <<>> THEN st.accumulatedContent ELSE Null]

\* use-chat.ts:557-568: the constructor keeps the array it is given
NewStore(initialMessages, b) ==
  [pc |-> "open",
   budget |-> b,
   arrays |-> <<initialMessages>>,
   values |-> <<initialMessages>>,
   messagesRef |-> 1,
   published |-> {},
   status |-> "ready",
   error |-> NoError,
   callbacks |-> [f \in Facets |-> <<>>],
   gone |-> {},
   entries |-> <<>>,
   toolCalls |-> <<>>,
   accumulatedContent |-> <<>>,
   streaming |-> FALSE,
   notified |-> <<>>,
   op |-> <<"new">>,
   ops |-> 0,
   subscriptions |-> 0]

StoreOnly == HookUnchanged /\ UNCHANGED <<sse, fold, session, adapter>>

\* the store as an operation finds it
Begin(name) == [store EXCEPT !.notified = <<>>, !.op = name, !.ops = @ + 1]

Writable == store.pc = "open" /\ store.ops < store.budget.ops

\* use-chat.ts:620-645: subscribeMessages, subscribeStatus, subscribeError
Subscribe(facet, l) ==
  /\ store.pc = "open"
  /\ store.subscriptions < store.budget.subscriptions
  /\ store' = [store EXCEPT
       !.notified = <<>>,
       !.op = <<"subscribe", facet, l>>,
       !.subscriptions = @ + 1,
       !.callbacks[facet] =
          IF \E i \in 1..Len(@) : @[i] = l THEN @ ELSE Append(@, l),
       !.gone = @ \ {<<facet, l>>}]
  /\ StoreOnly

\* use-chat.ts:622-624, 632-634, 642-644: the function subscribe returned
Unsubscribe(facet, l) ==
  /\ store.pc = "open"
  /\ \E i \in 1..Len(store.callbacks[facet]) : store.callbacks[facet][i] = l
  /\ store' = [store EXCEPT
       !.notified = <<>>,
       !.op = <<"unsubscribe", facet, l>>,
       !.callbacks[facet] = SelectSeq(@, LAMBDA x : x # l),
       !.gone = @ \cup {<<facet, l>>}]
  /\ StoreOnly

\* state.status = newStatus
AssignStatus(newStatus) ==
  /\ Writable
  /\ store' = StatusSetter(Begin(<<"status", newStatus>>), newStatus)
  /\ StoreOnly

\* state.error = newError
AssignError(newError) ==
  /\ Writable
  /\ store' = ErrorSetter(Begin(<<"error", newError>>), newError)
  /\ StoreOnly

\* use-chat.ts:205-214 setMessages
SetMessages(newMessages) ==
  /\ Writable
  /\ store' = MessagesSetter(Begin(<<"messages", newMessages>>), newMessages)
  /\ StoreOnly

\* use-chat.ts:497-503: sendMessage appends the user message
PushUser(message) ==
  /\ Writable
  /\ store' = StorePush(Begin(<<"push", message>>), message)
  /\ StoreOnly

\* popMessage, a method of the exported class
PopMessage ==
  /\ Writable
  /\ store' = StorePop(Begin(<<"pop">>))
  /\ StoreOnly

\* use-chat.ts:333-343: the placeholder, status streaming, the empty accumulators
StreamStart ==
  /\ Writable
  /\ ~store.streaming
  /\ store' =
       StatusSetter(
         StorePush([Begin(<<"start">>) EXCEPT !.streaming = TRUE,
                                               !.accumulatedContent = <<>>,
                                               !.toolCalls = <<>>],
                   Placeholder),
         "streaming")
  /\ StoreOnly

\* use-chat.ts:351-393: one delta of the loop
StreamWrite(delta) ==
  /\ Writable
  /\ store.streaming
  /\ LET merged == MergeOnHeap(
                     [Begin(<<"write", delta>>) EXCEPT
                        !.accumulatedContent = AccumulateContent(@, delta)],
                     delta.tool_calls)
     IN store' = StoreReplaceLast(merged, UpdatedOnHeap(merged))
  /\ StoreOnly

InitStore ==
  /\ HookAtRest
  /\ sse = SseIdle /\ fold = FoldIdle /\ session = SessionIdle
  /\ adapter = AdapterIdle
  /\ store \in { NewStore(log, b) : log \in {<<>>, <<UserMessage(<<"h","i">>)>>},
                                     b \in StoreBudgets }

NextStore ==
  \/ \E facet \in Facets, l \in Listeners : Subscribe(facet, l)
  \/ \E facet \in Facets, l \in Listeners : Unsubscribe(facet, l)
  \/ \E newStatus \in {"ready", "submitted"} : AssignStatus(newStatus)
  \/ \E newError \in {NoError, ErrFailedToFetch} : AssignError(newError)
  \/ \E newMessages \in {<<>>} : SetMessages(newMessages)
  \/ PushUser(UserMessage(<<"y","o">>))
  \/ PopMessage
  \/ StreamStart
  \/ \E delta \in StoreDeltas : StreamWrite(delta)

SpecStore == InitStore /\ [][NextStore]_vars

(***************************************************************************)
(* Vocabulary of the properties.  A step's first effect tells what ran.    *)
(***************************************************************************)
Called(op) ==
  Len(effects') > 0 /\ effects'[1].ev = "call" /\ effects'[1].op = op

Resumed(r, point) ==
  /\ Len(effects') > 0 /\ effects'[1].ev = "resume"
  /\ effects'[1].round = r /\ effects'[1].point = point

\* the completion handler of round r runs in this step
Completes(r) == InFlight(r) /\ round'[r].pc \notin {"fetch", "text", "stream"}

HasEvent(es, kind) == \E i \in DOMAIN es : es[i].ev = kind

(***************************************************************************)
(* C1: every change of the session status follows one of the edges         *)
(* ready->submitted, error->submitted, submitted->streaming,               *)
(* streaming->ready, streaming->error, submitted->ready, submitted->error; *)
(* in particular never ready/error->streaming and never                    *)
(* streaming->submitted.                                                   *)
(***************************************************************************)
C1_StatusEdges ==
  [][status' # status =>
       <<status, status'>> \in
         { <<"ready", "submitted">>, <<"error", "submitted">>,
           <<"submitted", "streaming">>, <<"streaming", "ready">>,
           <<"streaming", "error">>, <<"submitted", "ready">>,
           <<"submitted", "error">> }]_vars

(***************************************************************************)
(* C2: at any time at most one round is in flight, a round being in flight *)
(* from its submit until its completion handler has run.                   *)
(***************************************************************************)
C2_OneRoundInFlight == Cardinality({r \in Rounds : InFlight(r)}) <= 1

(***************************************************************************)
(* C3: stop() while the status is streaming makes the status ready; the    *)
(* round then finishes with onFinish(isAbort = true) and no                *)
(* auto-continuation (no evaluation of the predicate, no new round),       *)
(* whether its stream then fails with the abort error, yields another      *)
(* delta or ends.                                                          *)
(***************************************************************************)
C3_StopWhileStreaming ==
  [][/\ (status = "streaming" /\ Called("stop")) => status' = "ready"
     /\ \A r \in Rounds :
          (round[r].pc = "stream" /\ round[r].aborted /\ Completes(r)) =>
            /\ \E i \in DOMAIN effects' :
                 /\ effects'[i].ev = "onFinish"
                 /\ effects'[i].round = r
                 /\ effects'[i].isAbort
            /\ ~HasEvent(effects', "sendAutomaticallyWhen")
            /\ round'[r].pc = "done"
            /\ nRounds' = nRounds]_vars

(***************************************************************************)
(* C4: the completion of a cancelled round never asserts a status other    *)
(* than ready: when the completion handler of a round that stop() has      *)
(* cancelled runs, it leaves the status ready, never error.                *)
(***************************************************************************)
C4_CancelledCompletesReady ==
  [][\A r \in Rounds :
       (round[r].aborted /\ Completes(r)) =>
         /\ status' = "ready"
         /\ ~HasEvent(effects', "error")
         /\ \A i \in DOMAIN effects' :
              effects'[i].ev = "status" => effects'[i].value = "ready"]_vars

(***************************************************************************)
(* C5: a run that consists of one sendMessage(text) at rest, without stop  *)
(* and without addToolResult, whose request succeeds and whose stream      *)
(* delivers the text deltas d1..dn and ends: the user message is appended  *)
(* before the status changes, the status passes submitted, streaming,      *)
(* ready, and at the end the trailing message is an assistant message      *)
(* whose content is Content(d1..dn).  The statement of the claim takes the *)
(* concatenation for Content; the code yields the concatenation when it is *)
(* not empty, null when deltas came and the concatenation is empty, and    *)
(* the empty string of the placeholder when no delta came.                 *)
(***************************************************************************)
RECURSIVE Concatenation(_)
Concatenation(deltas) ==
  IF Len(deltas) = 0 THEN <<>>
  ELSE Head(deltas).content \o Concatenation(Tail(deltas))

ContentOrNull(deltas) ==
  IF Len(deltas) = 0 THEN <<>>
  ELSE IF Concatenation(deltas) = <<>> THEN Null
  ELSE Concatenation(deltas)

TextOnly(deltas) == \A i \in DOMAIN deltas : deltas[i].tool_calls = <<>>

HappyPath(asStated) ==
  LET Content(deltas) == IF asStated THEN Concatenation(deltas)
                         ELSE ContentOrNull(deltas)
  IN
  (nRounds' = 1 /\ caller'.nStops = 0 /\ caller'.nToolResults = 0) =>
    /\ Called("sendMessage") =>
         /\ Len(effects') >= 3
         /\ effects'[2] = EvPush(UserMessage(effects'[1].arg))
         /\ effects'[3] = EvStatus("submitted")
         /\ messages' = Append(messages, UserMessage(effects'[1].arg))
         /\ status \in {"ready", "error"} /\ status' = "submitted"
    /\ (Resumed(1, "response") /\ effects'[1].value.ok /\ effects'[1].value.body) =>
         status = "submitted" /\ status' = "streaming"
    /\ Resumed(1, "chunk") => status = "streaming" /\ status' = "streaming"
    /\ (Resumed(1, "end") /\ TextOnly(round[1].deltas)) =>
         /\ status = "streaming" /\ status' = "ready"
         /\ messages' = Append(round[1].submitted,
                               [role |-> "assistant",
                                content |-> Content(round[1].deltas)])

C5_HappyPath == [][HappyPath(FALSE)]_vars

C5_HappyPathAsStated == [][HappyPath(TRUE)]_vars

\* the stream of an undisturbed round ended after deltas whose text is empty
C5_WitnessNull ==
  /\ nRounds = 1 /\ caller.nStops = 0 /\ status = "ready"
  /\ round[1].pc = "autosend" /\ Len(round[1].deltas) > 0
  /\ LastMessage(messages) = [role |-> "assistant", content |-> Null]

(***************************************************************************)
(* C6: when the response of a round is not 2xx, or has no body, the round  *)
(* ends with status error and an error stored; for a non-2xx response the  *)
(* error's message carries the status code and the body text.  No step of  *)
(* the round appends a placeholder: each of them leaves the log as it     *)
(* was, so that the log is the log at submit time when the round is the    *)
(* only writer of the log (the only round so far, no addToolResult).       *)
(***************************************************************************)
C6_FailureBeforeBody ==
  [][\A r \in Rounds :
       LET quiet == nRounds = 1 /\ caller.nToolResults = 0
       IN
       /\ (Resumed(r, "response") /\ ~effects'[1].value.ok) =>
            /\ messages' = messages
            /\ round'[r].pc = "text"
       /\ Resumed(r, "text") =>
            /\ status' = "error"
            /\ error'.cls = "Error"
            /\ Includes(error'.message, NumberToString(round[r].code))
            /\ Includes(error'.message, effects'[1].text)
            /\ messages' = messages
            /\ quiet => messages' = round[r].submitted
       /\ (Resumed(r, "response") /\ effects'[1].value.ok
             /\ ~effects'[1].value.body) =>
            /\ status' = "error"
            /\ error'.cls = "Error"
            /\ messages' = messages
            /\ quiet => messages' = round[r].submitted]_vars

\* a round has just failed on a 500 response whose body is "oops"
C6_Witness ==
  /\ Len(effects) > 0 /\ effects[1].ev = "resume" /\ effects[1].point = "text"
  /\ status = "error"
  /\ error.message = <<"H","T","T","P"," ","5","0","0",":"," ","o","o","p","s">>
  /\ messages = <<UserMessage(<<"h","i">>)>>

(***************************************************************************)
(* C7: when a round fails before or during streaming with a condition      *)
(* other than the abort condition (an HTTP error, a missing body, a        *)
(* rejected fetch, body read or stream read), the status becomes error,    *)
(* the failure is stored as an Error, onError and then onFinish are called *)
(* with isError = true, isAbort = false and isDisconnect true exactly when *)
(* the failure is a TypeError whose message contains "fetch" or "network"  *)
(* in any letter case; the predicate is not evaluated, no round starts and *)
(* the log is as the stream left it.                                       *)
(***************************************************************************)
C7_Failure ==
  [][\A r \in Rounds :
       LET failed == \/ Resumed(r, "text")
                     \/ Resumed(r, "response") /\ effects'[1].value.ok
                          /\ ~effects'[1].value.body
                     \/ Resumed(r, "rejected") /\ effects'[1].value.name # "AbortError"
           n == Len(effects')
           disconnect ==
             /\ error'.cls = "TypeError"
             /\ \/ Includes(ToLowerCase(error'.message), <<"f","e","t","c","h">>)
                \/ Includes(ToLowerCase(error'.message),
                            <<"n","e","t","w","o","r","k">>)
       IN failed =>
            /\ status' = "error"
            /\ error'.cls \in {"Error", "TypeError"}
            /\ Resumed(r, "rejected") =>
                 /\ error'.message = effects'[1].value.message
                 /\ effects'[1].value.cls # "string" => error' = effects'[1].value
            /\ n >= 3
            /\ effects'[n - 1] = EvOnError(r, error')
            /\ effects'[n] = EvOnFinish(r, LastMessage(messages), messages,
                                        FALSE, disconnect, TRUE)
            /\ \A i \in 1..(n - 2) : effects'[i].ev \notin {"onError", "onFinish"}
            /\ ~HasEvent(effects', "sendAutomaticallyWhen")
            /\ ~HasEvent(effects', "fetch")
            /\ round'[r].pc = "done"
            /\ nRounds' = nRounds
            /\ messages' = messages]_vars

\* a stream read has just failed with TypeError("NetworkError"): a disconnect
C7_WitnessDisconnect ==
  /\ Len(effects) > 0 /\ effects[1].ev = "resume" /\ effects[1].point = "rejected"
  /\ effects[1].value = ErrNetworkError
  /\ status = "error" /\ error = ErrNetworkError
  /\ effects[Len(effects)].ev = "onFinish" /\ effects[Len(effects)].isDisconnect
  /\ Len(messages) = 2 /\ LastMessage(messages).role = "assistant"

(***************************************************************************)
(* C8: a round that the user has cancelled ends with status ready, the     *)
(* error slot as it was (empty), no onError, onFinish called with          *)
(* isAbort = true, isDisconnect = false, isError = false, and no           *)
(* auto-continuation (no evaluation of the predicate, no new round).       *)
(***************************************************************************)
C8_Cancelled ==
  [][\A r \in Rounds :
       (round[r].aborted /\ Completes(r)) =>
         /\ status' = "ready"
         /\ error' = error
         /\ ~HasEvent(effects', "onError")
         /\ \E i \in DOMAIN effects' :
              effects'[i] = EvOnFinish(r, LastMessage(messages), messages,
                                       TRUE, FALSE, FALSE)
         /\ ~HasEvent(effects', "sendAutomaticallyWhen")
         /\ round'[r].pc = "done"
         /\ nRounds' = nRounds]_vars

(***************************************************************************)
(* C9: when the stream of a round that was not cancelled ends, the round   *)
(* does, in this order: status ready and controller cleared, the complete  *)
(* tool calls reported to onToolCall, onFinish called with the trailing    *)
(* message, the whole log and isAbort = isDisconnect = isError = false,    *)
(* and only then the predicate evaluated, once, on the log.  When its      *)
(* verdict arrives a new round starts, with no message added to the log,   *)
(* if the verdict is true; no round starts if it is false or the predicate *)
(* is absent.                                                              *)
(***************************************************************************)
C9_NormalEnd ==
  [][\A r \in Rounds :
       /\ (Resumed(r, "end") /\ ~round[r].aborted) =>
            \E k \in 4..Len(effects') :
              /\ effects'[2] = EvStatus("ready")
              /\ effects'[3] = EvRef(0)
              /\ \A i \in 4..(k - 1) : effects'[i].ev = "onToolCall"
              /\ effects'[k] = EvOnFinish(r, LastMessage(messages), messages,
                                          FALSE, FALSE, FALSE)
              /\ IF options.sendAutomaticallyWhen = "absent"
                   THEN Len(effects') = k
                   ELSE /\ Len(effects') = k + 1
                        /\ effects'[k + 1].ev = "sendAutomaticallyWhen"
                        /\ effects'[k + 1].messages = messages
                        /\ round'[r].verdict = effects'[k + 1].result
              /\ options.sendAutomaticallyWhen = "absent" => ~round'[r].verdict
              /\ status' = "ready" /\ abortControllerRef' = 0
              /\ messages' = messages /\ nRounds' = nRounds
       /\ Resumed(r, "verdict") =>
            /\ messages' = messages
            /\ IF effects'[1].verdict
                 THEN /\ nRounds' = nRounds + 1
                      /\ round'[nRounds'].pc = "fetch"
                      /\ round'[nRounds'].submitted = messages
                 ELSE nRounds' = nRounds /\ ~HasEvent(effects', "fetch")
            /\ effects'[1].verdict = round[r].verdict]_vars

(***************************************************************************)
(* C10: addToolResult(toolCallId, result) appends exactly one tool message *)
(* with that tool_call_id, whose content is the result itself when it is a *)
(* string and its JSON serialisation otherwise; then the predicate is      *)
(* evaluated on the log that includes the message, and a new round, with   *)
(* no further message, starts if and only if its verdict is true.          *)
(***************************************************************************)
C10_AddToolResult ==
  [][/\ Called("addToolResult") =>
          LET arg == effects'[1].arg
              content == IF arg.result.t = "string" THEN arg.result.v
                         ELSE JSONStringify(arg.result)
              m == [role |-> "tool", tool_call_id |-> arg.toolCallId,
                    content |-> content]
          IN /\ messages' = Append(messages, m)
             /\ effects'[2] = EvPush(m)
             /\ nRounds' = nRounds
             /\ IF options.sendAutomaticallyWhen = "absent"
                  THEN Len(effects') = 2 /\ toolThen' = Append(toolThen, FALSE)
                  ELSE /\ Len(effects') = 3
                       /\ effects'[3].ev = "sendAutomaticallyWhen"
                       /\ effects'[3].messages = messages'
                       /\ toolThen' = Append(toolThen, effects'[3].result)
     /\ Resumed(0, "verdict") =>
          /\ \E i \in DOMAIN toolThen :
               toolThen[i] = effects'[1].verdict /\ toolThen' = RemoveAt(toolThen, i)
          /\ messages' = messages
          /\ IF effects'[1].verdict
               THEN /\ nRounds' = nRounds + 1
                    /\ round'[nRounds'].pc = "fetch"
                    /\ round'[nRounds'].submitted = messages
               ELSE nRounds' = nRounds /\ ~HasEvent(effects', "fetch")]_vars

\* the round that answers a tool result given as an object has started
C10_Witness ==
  /\ Len(effects) > 0 /\ effects[1] = EvResume(0, "verdict", TRUE)
  /\ round[nRounds].kind = "tool" /\ round[nRounds].pc = "fetch"
  /\ LastMessage(messages).role = "tool"
  /\ LastMessage(messages).content =
       <<"{", "\"", "o", "k", "\"", ":", "t", "r", "u", "e", "}">>

(***************************************************************************)
(* C12: in every round onToolCall is invoked only at stream end, and then  *)
(* for exactly the accumulated tool calls whose id, function.name and      *)
(* function.arguments are all non-empty, each id once (also when two       *)
(* indices carry the same id), in index order; an incomplete tool call is  *)
(* never reported.                                                         *)
(***************************************************************************)
RECURSIVE CompleteIds(_, _)
CompleteIds(toolCalls, seen) ==
  IF Len(toolCalls) = 0 THEN <<>>
  ELSE LET e == Head(toolCalls)
           report == /\ ~e.hole
                     /\ e.id # <<>>
                     /\ e.function.name # <<>>
                     /\ e.function.arguments # <<>>
                     /\ e.id \notin seen
       IN IF report THEN <<e.id>> \o CompleteIds(Tail(toolCalls), seen \cup {e.id})
          ELSE CompleteIds(Tail(toolCalls), seen)

RECURSIVE ReportedIds(_, _)
ReportedIds(es, r) ==
  IF Len(es) = 0 THEN <<>>
  ELSE (IF Head(es).ev = "onToolCall" /\ Head(es).round = r
          THEN <<Head(es).toolCall.id>> ELSE <<>>)
       \o ReportedIds(Tail(es), r)

C12_ToolNotification ==
  [][options.onToolCall =>
       \A r \in Rounds :
         IF Resumed(r, "end")
           THEN ReportedIds(effects', r) = CompleteIds(round[r].toolCalls, {})
           ELSE ReportedIds(effects', r) = <<>>]_vars

(***************************************************************************)
(* C11: no round failure escapes the entry points.  Whatever fails in a    *)
(* round (the transport call, the response checks, the stream, onFinish,   *)
(* onError, the predicate), the promise of sendMessage never rejects, and  *)
(* addToolResult neither throws nor leaves a rejected promise behind: no   *)
(* rejection is ever left uncaught.                                        *)
(***************************************************************************)
C11_NoEscape == uncaught = {}

(***************************************************************************)
(* C13: a failure inside onToolCall, thrown synchronously or delivered as  *)
(* a rejected promise, never becomes a round failure.  At the stream end   *)
(* of a round whose accumulated tool calls have no unset index, status     *)
(* becomes ready, the error slot is left as it was, onError is not fired,  *)
(* every complete tool call is notified, and onFinish is fired with        *)
(* isError = false.                                                        *)
(***************************************************************************)
NoUnsetIndex(toolCalls) == \A i \in 1..Len(toolCalls) : ~toolCalls[i].hole

C13_ToolCallbackFailure ==
  [][\A r \in Rounds :
       ( /\ Resumed(r, "end")
         /\ options.onToolCall
         /\ options.onToolCallFails # "no"
         /\ options.onFinish = "ok"
         /\ ~PredicateFails("throws")
         /\ NoUnsetIndex(round[r].toolCalls) ) =>
           /\ status' = "ready"
           /\ error' = error
           /\ ~HasEvent(effects', "onError")
           /\ ReportedIds(effects', r) = CompleteIds(round[r].toolCalls, {})
           /\ \E i \in 1..Len(effects') :
                 /\ effects'[i].ev = "onFinish"
                 /\ ~effects'[i].isError]_vars

(***************************************************************************)
(* Vocabulary of the decoder's properties.                                 *)
(***************************************************************************)
\* the decoder stopped because the source ended or a [DONE] line was met
EndedNormally == sse.pc = "done" /\ sse.outcome = "ended"

\* the part of the text the reader has handed over so far
Consumed == SubSeq(sse.text, 1, Len(sse.text) - Len(sse.source))

IsPrefix(s, t) == Len(s) <= Len(t) /\ SubSeq(t, 1, Len(s)) = s

\* the for loop of the decoder over the lines of one chunk
RECURSIVE RunLines(_, _)
RunLines(lines, out) ==
  IF lines = <<>> THEN [out |-> out, returned |-> FALSE]
  ELSE LET step == ProcessLine(Head(lines))
       IN CASE step.kind = "return" -> [out |-> out, returned |-> TRUE]
            [] step.kind = "yield" -> RunLines(Tail(lines), Append(out, step.value))
            [] OTHER -> RunLines(Tail(lines), out)

\* what the decoder yields when the source hands the whole text over at once
OneChunk(text) ==
  IF text = <<>> THEN Flush(<<>>)
  ELSE LET lines == Split(text)
           loop == RunLines(Front(lines), <<>>)
       IN IF loop.returned THEN loop.out ELSE loop.out \o Flush(Carry(lines))

\* the lines of the event stream format, read off a text
IsDataLine(line) == StartsWith(Trim(line), StrData)
PayloadOf(line) == Slice(Trim(line), Len(StrData))
IsDoneLine(line) == IsDataLine(line) /\ PayloadOf(line) = StrDone
IsWellFormed(line) == IsDataLine(line) /\ JSONParse(PayloadOf(line)) # SyntaxError

\* the parsed payloads of the well-formed data lines before the first [DONE] line
RECURSIVE Payloads(_)
Payloads(lines) ==
  IF lines = <<>> THEN <<>>
  ELSE IF IsDoneLine(Head(lines)) THEN <<>>
  ELSE (IF IsWellFormed(Head(lines)) THEN <<JSONParse(PayloadOf(Head(lines)))>>
        ELSE <<>>) \o Payloads(Tail(lines))

(***************************************************************************)
(* C14: the decoder is insensitive to chunk boundaries.  However the text  *)
(* of the source is cut into chunks (inside a line, inside the "data: "    *)
(* prefix, inside "[DONE]"), a run that ends normally has yielded the      *)
(* sequence the single-chunk run of the same text yields.                  *)
(***************************************************************************)
C14_ChunkInsensitive == EndedNormally => sse.out = OneChunk(sse.text)

\* a text delivered one character at a time: every cut is made
C14_Witness ==
  /\ EndedNormally
  /\ sse.text = <<" ", "d", "a", "t", "a", ":", " ", "2", "\r", "\n">>
                 \o StrData \o StrDone \o <<"\n">>
  /\ sse.reads = Len(sse.text)
  /\ sse.out = <<JNumber(2)>>

(***************************************************************************)
(* C15: when a line whose payload is exactly [DONE] is processed, the      *)
(* decoder ends normally at once: that step yields nothing and reads       *)
(* nothing, the later lines of the chunk stay unprocessed and the rest of  *)
(* the source unread, and the decoder, once ended, does nothing more.      *)
(***************************************************************************)
C15_DoneStops ==
  [][/\ (sse.pc = "lines" /\ IsDoneLine(Head(sse.lines))) =>
          /\ sse'.pc = "done" /\ sse'.outcome = "ended"
          /\ sse'.out = sse.out
          /\ sse'.reads = sse.reads
          /\ sse'.source = sse.source
          /\ sse'.lines = Tail(sse.lines)
     /\ sse.pc = "done" => sse' = sse]_vars

\* ended by [DONE] with a later line of the same chunk left unprocessed
C15_Witness ==
  /\ EndedNormally
  /\ sse.lines = <<<<"d", "a", "t", "a", ":", " ", "1">>>>
  /\ sse.out = <<>>
  /\ sse.reads = 1

(***************************************************************************)
(* C16: the decoder yields exactly the parsed payloads of the well-formed  *)
(* data lines, in order: at every moment what it has yielded is a prefix   *)
(* of them, and all of them when it ends normally.  A data line whose      *)
(* payload is not JSON, and a line that does not start (after trimming)    *)
(* with "data: ", yield nothing.                                           *)
(***************************************************************************)
C16_YieldsPayloads ==
  /\ IsPrefix(sse.out, Payloads(Split(sse.text)))
  /\ EndedNormally => sse.out = Payloads(Split(sse.text))

\* a malformed data line between nothing and a well-formed one
C16_Witness ==
  /\ EndedNormally
  /\ sse.text = <<"d", "a", "t", "a", ":", " ", "{", "\n",
                  "d", "a", "t", "a", ":", " ", "1", "\n">>
  /\ sse.out = <<JNumber(1)>>
  /\ sse.reads > 2

(***************************************************************************)
(* C17: when the source ends with an unterminated final line in the buffer *)
(* (and no [DONE] was met), that line is processed like a complete line;   *)
(* and before the source has ended an unterminated final line is never     *)
(* processed: what has been yielded comes from terminated lines only.      *)
(***************************************************************************)
AsCompleteLine(line) ==
  IF ProcessLine(line).kind = "yield" THEN <<ProcessLine(line).value>> ELSE <<>>

SourceEnds ==
  /\ sse.pc = "read" /\ sse.source = <<>>
  /\ sse'.reads = sse.reads + 1 /\ sse'.outcome # "threw"

C17_FinalLine ==
  [][/\ SourceEnds => sse'.out = sse.out \o AsCompleteLine(sse.buffer)
     /\ sse'.pc \in {"read", "lines", "yield"} =>
          /\ IsPrefix(sse'.out, Payloads(Front(Split(Consumed'))))
          /\ sse'.buffer = Carry(Split(Consumed'))]_vars

\* the source ended, cut inside its final line, and that line was yielded
C17_Witness ==
  /\ sse.pc = "flushed"
  /\ sse.text = <<"d", "a", "t", "a", ":", " ", "1", "\n",
                  "d", "a", "t", "a", ":", " ", "2">>
  /\ sse.out = <<JNumber(1), JNumber(2)>>
  /\ sse.reads = 4

(***************************************************************************)
(* C18: the reader lock is released exactly once on every way the decoder  *)
(* stops (the source ended, [DONE] was met, a read failed, the consumer    *)
(* left early), and is held until then.                                    *)
(***************************************************************************)
C18_ReleasedOnce ==
  /\ sse.pc = "done" <=> sse.outcome \in {"ended", "threw", "returned"}
  /\ sse.released = IF sse.pc = "done" THEN 1 ELSE 0

\* the consumer left while the decoder was suspended at a yield
C18_Witness ==
  /\ sse.pc = "done" /\ sse.outcome = "returned"
  /\ sse.released = 1
  /\ sse.lines # <<>>

(***************************************************************************)
(* C19: the assistant message depends on the text deltas only through      *)
(* their concatenation.  Two streams of text deltas (deltas with empty or  *)
(* absent content included) whose concatenations are equal, and which      *)
(* both carry at least one delta or both carry none, leave the same        *)
(* assistant message.                                                      *)
(***************************************************************************)
SameText == Concatenation(fold.left.deltas) = Concatenation(fold.right.deltas)

C19_TextByConcatenation ==
  ( /\ fold.pair
    /\ SameText
    /\ fold.left.deltas = <<>> <=> fold.right.deltas = <<>> ) =>
      fold.left.message = fold.right.message

\* as stated: any two streams with equal concatenations, a stream without
\* deltas included
C19_AsStated ==
  (fold.pair /\ SameText) => fold.left.message = fold.right.message

\* the same text cut in two ways, one of them with a delta without content
C19_Witness ==
  /\ fold.pair
  /\ fold.left.deltas = <<Delta(StrA, <<>>), Delta(<<>>, <<>>), Delta(StrB, <<>>)>>
  /\ fold.right.deltas = <<Delta(StrA \o StrB, <<>>)>>
  /\ fold.left.message = [role |-> "assistant", content |-> StrA \o StrB]
  /\ fold.right.message = fold.left.message

(***************************************************************************)
(* C20: the merge of tool-call fragments is isolated by index.  After any  *)
(* sequence of fragments, the entry of index i has as name and arguments   *)
(* the concatenations, in arrival order, of the names and arguments of     *)
(* the fragments of index i, and as id the last non-empty id among them    *)
(* (the empty id if there is none); fragments of other indices never       *)
(* change it, and an index without fragments has no entry.                 *)
(***************************************************************************)
RECURSIVE FragmentsOf(_, _)
FragmentsOf(deltas, i) ==
  IF deltas = <<>> THEN <<>>
  ELSE SelectSeq(Head(deltas).tool_calls, LAMBDA f : f.index = i)
       \o FragmentsOf(Tail(deltas), i)

RECURSIVE Names(_)
Names(frags) == IF frags = <<>> THEN <<>> ELSE Head(frags).name \o Names(Tail(frags))

RECURSIVE Arguments(_)
Arguments(frags) ==
  IF frags = <<>> THEN <<>> ELSE Head(frags).arguments \o Arguments(Tail(frags))

RECURSIVE LastId(_)
LastId(frags) ==
  IF frags = <<>> THEN <<>>
  ELSE IF frags[Len(frags)].id # <<>> THEN frags[Len(frags)].id
  ELSE LastId(SubSeq(frags, 1, Len(frags) - 1))

C20_IndexIsolated ==
  \A i \in 0..MaxIndex :
    LET frags == FragmentsOf(fold.left.deltas, i)
        toolCalls == fold.left.toolCalls
    IN IF frags = <<>> THEN IsUnset(toolCalls, i)
       ELSE /\ ~IsUnset(toolCalls, i)
            /\ toolCalls[i + 1].function.name = Names(frags)
            /\ toolCalls[i + 1].function.arguments = Arguments(frags)
            /\ toolCalls[i + 1].id = LastId(frags)

\* fragments of two indices interleaved; the id of index 0 arrives twice
C20_Witness ==
  /\ ~fold.pair
  /\ fold.left.deltas = << Delta(<<>>, <<Fragment(0, StrT1, StrF, <<>>)>>),
                           Delta(<<>>, <<Fragment(1, StrT1, StrF, StrArgs)>>),
                           Delta(<<>>, <<Fragment(0, StrT2, <<>>, StrArgs)>>) >>
  /\ fold.left.toolCalls[1].id = StrT2
  /\ fold.left.toolCalls[2].id = StrT1

(***************************************************************************)
(* C21: after every delta a round folds, the trailing message of the log   *)
(* is the snapshot of the round's accumulation: role assistant, content    *)
(* the accumulated text if it is non-empty and null otherwise, and a       *)
(* tool_calls list exactly when some index has been seen, with one entry   *)
(* per seen index, in ascending index order and without a hole, also when  *)
(* the indices arrive out of order or skip values.                         *)
(***************************************************************************)
SeenIndices(deltas) ==
  {i \in 0..MaxIndex : FragmentsOf(deltas, i) # <<>>}

\* the entry of index i, as its fragments determine it
EntryOf(deltas, i) ==
  LET frags == FragmentsOf(deltas, i)
  IN [id |-> LastId(frags), type |-> "function",
      function |-> [name |-> Names(frags), arguments |-> Arguments(frags)]]

RECURSIVE EntriesFrom(_, _)
EntriesFrom(deltas, i) ==
  IF i > MaxIndex THEN <<>>
  ELSE (IF i \in SeenIndices(deltas) THEN <<EntryOf(deltas, i)>> ELSE <<>>)
       \o EntriesFrom(deltas, i + 1)

Snapshot(deltas) ==
  LET text == Concatenation(deltas)
      content == IF text # <<>> THEN text ELSE Null
  IN IF SeenIndices(deltas) = {}
       THEN [role |-> "assistant", content |-> content]
       ELSE [role |-> "assistant", content |-> content,
             tool_calls |-> EntriesFrom(deltas, 0)]

\* round r folds a delta in this step
Folds(r) ==
  /\ Resumed(r, "chunk")
  /\ round'[r].pc = "stream"
  /\ Len(round'[r].deltas) = Len(round[r].deltas) + 1

C21_Snapshot ==
  [][\A r \in Rounds :
       Folds(r) => /\ Len(messages') = Len(messages)
                   /\ LastMessage(messages') = Snapshot(round'[r].deltas)]_vars

\* index 1 arrived alone: the list has one entry and no hole
C21_WitnessSkip ==
  \E r \in Rounds :
    /\ round[r].pc = "stream"
    /\ Len(round[r].deltas) = 2
    /\ Len(round[r].toolCalls) = 2
    /\ round[r].toolCalls[1].hole
    /\ LastMessage(messages) =
         [role |-> "assistant", content |-> StrA,
          tool_calls |-> <<[id |-> StrT2, type |-> "function",
                            function |-> [name |-> StrF, arguments |-> StrArgs]]>>]

(***************************************************************************)
(* Vocabulary of the properties of the request.                            *)
(***************************************************************************)
\* a round starts in this step; it is round nRounds'
Starts == nRounds' = nRounds + 1

\* the body additions the request carries
AdditionsOf(request) ==
  IF options.transport.prepareRequestBody
    THEN request.body.preparedFrom.body
    ELSE [k \in DOMAIN request.body \ {"id", "messages"} |-> request.body[k]]

\* the values sent under a header name; header names do not distinguish case
HeaderValues(headers, name) ==
  {headers[k] : k \in {x \in DOMAIN headers : ToLowerCase(x) = ToLowerCase(name)}}

\* every value a request carries
ValuesOf(request) ==
  {request.api, request.credentials}
  \cup {request.headers[k] : k \in DOMAIN request.headers}
  \cup {AdditionsOf(request)[k] : k \in DOMAIN AdditionsOf(request)}

\* what a property of the given kind must be in round r
Expected(kind, r) ==
  IF kind = "resolver" THEN Fresh(r) ELSE IF kind = "static" THEN Static ELSE Absent

(***************************************************************************)
(* C22: every round (started by sendMessage, by the auto-continuation or   *)
(* by addToolResult) calls each resolver of the transport once when it     *)
(* starts, and its request carries the values of that round: api and       *)
(* credentials, the transport headers and the transport body additions     *)
(* are the round's own resolver values or the static values, and no value  *)
(* a resolver returned in an earlier round is in the request.              *)
(***************************************************************************)
C22_FreshTransport ==
  [][Starts =>
       LET r == nRounds'
           t == options.transport
           request == round'[r].request
       IN /\ round'[r].resolverCalls =
               SelectSeq(<<"api", "headers", "credentials", "body">>,
                         LAMBDA p : t[p] = "resolver")
          /\ request.api = Expected(t.api, r)
          /\ request.credentials = Expected(t.credentials, r)
          /\ t.headers # "absent" =>
               HeaderValues(request.headers, HdrTrace) = {Expected(t.headers, r)}
          /\ t.body # "absent" =>
               AdditionsOf(request)["model"] = Expected(t.body, r)
          /\ \A v \in ValuesOf(request) : v.src = "resolver" => v.n = r]_vars

\* a round started by addToolResult, the second of the run, sends the values
\* its resolvers returned in it
C22_Witness ==
  /\ nRounds = 2
  /\ round[2].kind = "tool" /\ round[2].pc = "fetch"
  /\ round[2].resolverCalls = <<"api", "headers", "credentials", "body">>
  /\ round[2].request.api = Fresh(2)
  /\ HeaderValues(round[2].request.headers, HdrTrace) = {Fresh(2)}

\* the same for a round started by the auto-continuation
C22_WitnessAuto ==
  /\ nRounds = 2
  /\ round[2].kind = "auto" /\ round[2].pc = "fetch"
  /\ round[2].request.api = Fresh(2)
  /\ round[2].requestOptions = OverridingOptions

(***************************************************************************)
(* C23: in every round the request headers and the body additions are the  *)
(* transport-level values overridden, key by key, by the per-call values   *)
(* of the send operation: a key the call supplies is sent with the call's  *)
(* value alone, any other key of the transport with the transport's        *)
(* value.  With prepareRequestBody the payload is its result on            *)
(* {id, messages, body: merged additions}; without it the payload is       *)
(* {id, messages} extended with the merged additions.                      *)
(***************************************************************************)
\* b's values where b has the key, a's elsewhere
Overridden(a, b) ==
  [k \in DOMAIN a \cup DOMAIN b |-> IF k \in DOMAIN b THEN b[k] ELSE a[k]]

RequestBuild(anyForm) ==
  Starts =>
    LET r == nRounds'
        t == options.transport
        request == round'[r].request
        call == round'[r].requestOptions
        own == resolveTransport(t, r)
        merged == Overridden(own.body, call.body)
    IN (anyForm \/ t.headersForm = "record") =>
         /\ \A name \in DOMAIN call.headers.entries :
              HeaderValues(request.headers, name) = {call.headers.entries[name]}
         /\ \A name \in DOMAIN own.headers.entries \ DOMAIN call.headers.entries :
              HeaderValues(request.headers, name) = {own.headers.entries[name]}
         /\ AdditionsOf(request) = merged
         /\ request.body =
              IF t.prepareRequestBody
                THEN PrepareRequestBody([id |-> ChatId, messages |-> messages',
                                         body |-> merged])
                ELSE Overridden([id |-> ChatId, messages |-> messages'], merged)

C23_RequestBuild == [][RequestBuild(TRUE)]_vars

\* the same, for transports whose headers are a plain object
C23_PlainHeaders == [][RequestBuild(FALSE)]_vars

(***************************************************************************)
(* C24: the session id is fixed once supplied or generated: a render with  *)
(* the same id or with no id changes neither the id nor the store, and a   *)
(* render with a different id makes a new session (log = the initial       *)
(* messages of that render, status ready, error empty) while the stores    *)
(* that existed before the render keep their contents.                     *)
(***************************************************************************)
Renders == session'.renders = session.renders + 1

SameSession ==
  /\ session'.idRef = session.idRef
  /\ session'.stateRef = session.stateRef
  /\ session'.stores = session.stores

NewSession ==
  /\ session'.idRef = session'.props.id
  /\ session'.stateRef = Len(session.stores) + 1
  /\ Len(session'.stores) = Len(session.stores) + 1
  /\ session'.stores[session'.stateRef] =
       [messages |-> session'.props.messages.log, status |-> "ready", error |-> NoError]
  /\ SubSeq(session'.stores, 1, Len(session.stores)) = session.stores

\* as stated: every supplied id that differs from the current one switches
SessionRule(supplied) ==
  Renders =>
    IF session'.props.id \in supplied /\ session'.props.id # session.idRef
    THEN NewSession
    ELSE SameSession

C24_SessionSwitch == [][SessionRule({EmptyId, IdA, IdB})]_vars

\* what holds: the rule for the supplied ids that are not the empty string
C24_NonEmptyIds == [][SessionRule({IdA, IdB})]_vars

\* a render that switches away from a session whose store was written to
C24_WitnessSwitch ==
  /\ session.pc = "mounted"
  /\ session.stateRef = 2
  /\ session.stores[1].status = "error"
  /\ Len(session.stores[1].messages) = 2

\* a render passing the empty string while another id is current
C24_WitnessEmptyId ==
  /\ session.pc = "mounted"
  /\ session.renders > 1
  /\ session.props.id = EmptyId
  /\ session.idRef # EmptyId


(***************************************************************************)
(* C25: an adapter given a value that is not async-iterable fails at once  *)
(* with nothing sent; otherwise it sends each chunk in order as            *)
(* 'data: <JSON>' and a blank line, sends 'data: [DONE]' only when the     *)
(* source completed, and on every exit the response has been released      *)
(* (end, close or error), a source failing mid-stream included.            *)
(***************************************************************************)
FailsAtOnce ==
  ~adapter.result.iterable =>
    /\ adapter.pc = "failed"
    /\ adapter.outcome \in {"threw", "rejected"}
    /\ adapter.thrown = ErrNotStreaming
    /\ adapter.head = <<>> /\ adapter.out = <<>> /\ adapter.released = <<>>

CompletedNormally ==
  /\ adapter.pc = "done"
  /\ adapter.pos = Len(adapter.result.chunks)
  /\ adapter.result.ending = "done"
  /\ adapter.failure = NoError

\* the frames of the chunks sent so far, in the order of the source
FramesSent ==
  LET n == IF CompletedNormally THEN Len(adapter.out) - 1 ELSE Len(adapter.out)
  IN /\ n <= adapter.pos
     /\ n >= adapter.pos - 1
     /\ \A i \in 1..n :
          /\ Len(adapter.out[i]) > 8
          /\ StartsWith(adapter.out[i], StrData)
          /\ SubSeq(adapter.out[i], Len(adapter.out[i]) - 1, Len(adapter.out[i]))
               = <<"\n", "\n">>
          /\ JSONParse(SubSeq(adapter.out[i], 7, Len(adapter.out[i]) - 2))
               = adapter.result.chunks[i]
     /\ CompletedNormally => adapter.out[Len(adapter.out)] = DoneFrame
     /\ (n = adapter.pos - 1) => adapter.failure = ErrStringify

Exited == adapter.pc \in {"done", "failed"} /\ adapter.result.iterable

Released == Len(adapter.released) = 1

AdapterContract(exits) ==
  /\ FailsAtOnce
  /\ adapter.result.iterable /\ adapter.pc # "idle" => FramesSent
  /\ Exited /\ exits => Released
  /\ Len(adapter.released) <= 1

C25_Adapters == AdapterContract(TRUE)

\* what holds: the release on every exit that follows the sending of the head
C25_AfterHead == AdapterContract(adapter.head # <<>> \/ adapter.kind = "create")

\* a source that failed after a chunk was sent
C25_WitnessMidStream ==
  /\ adapter.pc = "done"
  /\ adapter.kind = "pipe"
  /\ Len(adapter.out) = 1
  /\ adapter.thrown = ErrSource
  /\ adapter.released = <<"end">>

\* res.writeHead refused the head: the call is over and end was never called
C25_WitnessHead ==
  /\ adapter.pc = "failed"
  /\ adapter.kind = "pipe"
  /\ adapter.thrown = ErrInvalidHeader
  /\ adapter.released = <<>>


(***************************************************************************)
(* C26: the only entry of the log a round replaces is its own assistant    *)
(* placeholder: when a round folds a delta, the entry it overwrites is the *)
(* message this round wrote last (its placeholder or its previous          *)
(* snapshot), never a user, tool or system message nor the assistant       *)
(* message of another round, and every other entry keeps value and place.  *)
(***************************************************************************)
\* what round r wrote last into the log
OwnTrailing(r) ==
  IF round[r].deltas = <<>> THEN Placeholder ELSE Snapshot(round[r].deltas)

OthersKept ==
  /\ Len(messages') = Len(messages)
  /\ \A i \in 1..(Len(messages) - 1) : messages'[i] = messages[i]

C26_OwnPlaceholder ==
  [][\A r \in Rounds :
       Folds(r) => /\ LastMessage(messages).role = "assistant"
                   /\ LastMessage(messages) = OwnTrailing(r)
                   /\ OthersKept]_vars

\* what holds: the write replaces the trailing entry and no other
C26_TrailingOnly == [][\A r \in Rounds : Folds(r) => OthersKept]_vars

\* the answer to a tool call was overwritten by the round that was streaming:
\* the placeholder of that round is still in the log, before its snapshot
C26_WitnessOverwritten ==
  /\ caller.answered # {}
  /\ Len(messages) >= 2
  /\ messages[Len(messages) - 1] = Placeholder
  /\ messages[Len(messages)].role = "assistant"
  /\ \A i \in 1..Len(messages) : messages[i].role # "tool"


(***************************************************************************)
(* C27: through sendMessage, addToolResult, streaming, stop and every end  *)
(* of a round (normal, cancelled, failed) the log never gets shorter and   *)
(* the messages in it keep their order: every step leaves each entry but   *)
(* the trailing one at its position with its value, and the trailing one   *)
(* is either kept or overwritten in place by a streaming write.            *)
(***************************************************************************)
Grows ==
  /\ Len(messages') >= Len(messages)
  /\ \A i \in 1..(Len(messages) - 1) : messages'[i] = messages[i]
  /\ Len(messages) > 0 =>
       \/ messages'[Len(messages)] = messages[Len(messages)]
       \/ \E r \in Rounds : Folds(r) /\ Len(messages') = Len(messages)

C27_Monotonic == [][Grows]_vars

\* a log that went through two sends, a streaming write, a tool result, a
\* stop and a failure
C27_Witness ==
  /\ Len(messages) >= 4
  /\ caller.nStops > 0
  /\ caller.answered # {}
  /\ status = "error"
  /\ \E r \in Rounds : round[r].deltas # <<>>


(***************************************************************************)
(* C28: when every network call and every stream read settles, every round *)
(* that was submitted comes to rest (status ready or error), and a chain   *)
(* of auto-continuations goes on only from a round that ended normally     *)
(* with a true verdict of the predicate: no round is started from a round  *)
(* that was cancelled, that failed, or whose verdict was false.            *)
(***************************************************************************)
AtRest == status \in {"ready", "error"}

ComesToRest == \A r \in Rounds : InFlight(r) ~> (~InFlight(r) /\ AtRest)

\* the round started in this step continues the chain of round p
Continuation(p) ==
  /\ Starts
  /\ round'[nRounds'].kind = "auto"
  /\ round'[nRounds'].parent = p

ChainEnds ==
  \A p \in Rounds :
    Continuation(p) => /\ round[p].pc = "autosend"
                       /\ round[p].verdict
                       /\ ~round[p].aborted

C28_Terminates == ComesToRest /\ [][ChainEnds]_vars

\* what holds: every round comes to rest, and a continuation is started only
\* by a round that ended without failure on a true verdict
C28_ComesToRest == ComesToRest

C28_StartedOnVerdict ==
  [][\A p \in Rounds :
       Continuation(p) => round[p].pc = "autosend" /\ round[p].verdict]_vars

\* a round that was stopped while streaming and whose chain went on
C28_WitnessGoesOn ==
  \E p \in Rounds :
    /\ round[p].aborted
    /\ round[p].pc = "awaiting"
    /\ \E q \in Rounds : round[q].parent = p /\ InFlight(q)


(***************************************************************************)
(* C29: a round whose cancellation token was triggered folds no further    *)
(* delta: the token is checked before each delta, so a delta that arrives  *)
(* after stop() changes neither the accumulated message nor the log, and   *)
(* the round ends there as a stop of the user (onFinish with isAbort, not  *)
(* isError; no error stored, no onError), not as a failure.                *)
(***************************************************************************)
\* a delta arrives for round r after its token was triggered
DeltaAfterStop(r) ==
  /\ round[r].pc = "stream"
  /\ round[r].aborted
  /\ Resumed(r, "chunk")

NotFolded(r) ==
  /\ messages' = messages
  /\ ~HasEvent(effects', "replaceLastMessage")
  /\ ~Folds(r)

EndsAsStop(r) ==
  /\ round'[r].pc = "done"
  /\ \E i \in DOMAIN effects' :
       /\ effects'[i].ev = "onFinish" /\ effects'[i].round = r
       /\ effects'[i].isAbort /\ ~effects'[i].isError
  /\ ~HasEvent(effects', "onError")
  /\ ~HasEvent(effects', "error")
  /\ status' # "error"

C29_NoFoldAfterStop ==
  [][\A r \in Rounds : DeltaAfterStop(r) => NotFolded(r) /\ EndsAsStop(r)]_vars

\* what holds: the delta is not folded, the round ends at once and onFinish
\* is told isAbort
C29_NotFolded ==
  [][\A r \in Rounds :
       DeltaAfterStop(r) =>
         /\ NotFolded(r)
         /\ round'[r].pc = "done"
         /\ \E i \in DOMAIN effects' :
              /\ effects'[i].ev = "onFinish" /\ effects'[i].round = r
              /\ effects'[i].isAbort]_vars

\* a delta arrived after stop() and the round ended as a failure
C29_WitnessFailure ==
  /\ Len(effects) > 0 /\ effects[1].ev = "resume" /\ effects[1].point = "chunk"
  /\ caller.nStops > 0
  /\ status = "error"
  /\ \E i \in DOMAIN effects :
       effects[i].ev = "onFinish" /\ effects[i].isAbort /\ effects[i].isError


(***************************************************************************)
(* C30: whenever the status is error the error slot holds an error; every  *)
(* submit sets the status submitted, empties the error slot, makes a fresh *)
(* cancellation token and resets the set of notified tool calls; so while  *)
(* one round alone is submitted or streaming the error slot stays empty;   *)
(* and stop() triggers no token but that of a round in flight, the one the *)
(* controller ref holds.                                                   *)
(***************************************************************************)
ErrorHeld == status = "error" => error # NoError

SubmitClears ==
  Starts => /\ status' = "submitted"
            /\ error' = NoError
            /\ abortControllerRef' = nRounds'
            /\ abortControllerRef' \notin {q \in Rounds : round[q].pc # "idle"}
            /\ ~round'[nRounds'].aborted
            /\ notifiedToolCalls' = {}

\* round r is in flight and overlaps with no other round: no other call of
\* performRequest waits for the network or for the verdict of the predicate
SoleInFlight(r) ==
  /\ InFlight(r)
  /\ \A q \in Rounds \ {r} : ~InFlight(q) /\ round[q].pc # "autosend"

StaysEmpty ==
  \A r \in Rounds :
    (SoleInFlight(r) /\ error = NoError /\ round'[r].pc \in {"fetch", "text", "stream"})
      => error' = NoError

Triggered == {q \in Rounds : round'[q].aborted /\ ~round[q].aborted}

StopTriggersCurrent ==
  Called("stop") => /\ Triggered \subseteq {abortControllerRef}
                    /\ \A q \in Triggered : InFlight(q)
                    /\ abortControllerRef # 0 => Triggered = {abortControllerRef}

C30_ErrorSlot ==
  /\ []ErrorHeld
  /\ [][SubmitClears /\ StaysEmpty /\ StopTriggersCurrent]_vars

\* a second submit after a failure: the error of the first round was cleared,
\* and a stop has triggered the token of the round in flight
C30_Witness ==
  /\ nRounds = 2
  /\ round[1].pc = "done"
  /\ round[2].pc = "stream"
  /\ round[2].aborted
  /\ error = NoError
  /\ Len(effects) > 0 /\ effects[1] = EvCall("stop", <<>>)

\* the status is error and the slot holds the error
C30_WitnessError == status = "error" /\ error = ErrFailedToFetch

(***************************************************************************)
(* C31: pushMessage(m) makes the log the old log followed by m;            *)
(* replaceLastMessage(m) on a non-empty log makes it the old log without   *)
(* its last element followed by m, of the same length, and on an empty log *)
(* makes what pushMessage(m) makes; each calls every messages listener     *)
(* exactly once.                                                           *)
(***************************************************************************)
StoreLog(st) == st.arrays[st.messagesRef]

Ran(name) == store'.op[1] = name

\* every listener of the facet was called once, and no one else
NotifiedOnce(facet) ==
  /\ Len(store'.notified) = Len(store'.callbacks[facet])
  /\ \A i \in 1..Len(store'.notified) :
       /\ store'.notified[i].facet = facet
       /\ store'.notified[i].listener = store'.callbacks[facet][i]
  /\ \A l \in Listeners :
       Cardinality({ i \in 1..Len(store'.notified) : store'.notified[i].listener = l })
         = IF \E i \in 1..Len(store.callbacks[facet]) : store.callbacks[facet][i] = l
             THEN 1 ELSE 0

\* the new last element of the log has the value of m
EndsWith(m) ==
  /\ Len(StoreLog(store')) > 0
  /\ DerefMessage(store'.entries, StoreLog(store')[Len(StoreLog(store'))])
       = DerefMessage(store'.entries, m)

AppendRule ==
  Ran("push") =>
    /\ StoreLog(store') = Append(StoreLog(store), store'.op[2])
    /\ NotifiedOnce("messages")

ReplaceRule ==
  Ran("write") =>
    /\ EndsWith(UpdatedOnHeap(store'))
    /\ IF Len(StoreLog(store)) = 0
         THEN Len(StoreLog(store')) = 1
         ELSE /\ Len(StoreLog(store')) = Len(StoreLog(store))
              /\ SubSeq(StoreLog(store'), 1, Len(StoreLog(store)) - 1)
                   = SubSeq(StoreLog(store), 1, Len(StoreLog(store)) - 1)
    /\ NotifiedOnce("messages")

C31_AppendReplace == [][AppendRule /\ ReplaceRule]_vars

\* a delta was written over the last of two messages, a listener was called
C31_WitnessReplace ==
  /\ store.pc = "open"
  /\ store.op[1] = "write"
  /\ Len(StoreLog(store)) = 2
  /\ Len(store.arrays[store.messagesRef - 1]) = 2
  /\ Len(store.notified) > 0

\* a delta was written into an empty log, a listener was called
C31_WitnessEmpty ==
  /\ store.pc = "open"
  /\ store.op[1] = "write"
  /\ store.arrays[store.messagesRef - 1] = <<>>
  /\ Len(StoreLog(store)) = 1
  /\ Len(store.notified) > 0

\* a user message was appended, two listeners were called
C31_WitnessAppend ==
  /\ store.pc = "open"
  /\ store.op[1] = "push"
  /\ Len(store.notified) = 2

(***************************************************************************)
(* C32: the three facets notify apart: a status assignment of the current  *)
(* value changes nothing and calls no listener, one of another value calls *)
(* the status listeners only, every error assignment (of no error, of the  *)
(* same error too) calls the error listeners only, a mutation of the log   *)
(* calls the messages listeners only; a listener that has unsubscribed is  *)
(* not called again.                                                       *)
(***************************************************************************)
SameStatusRule ==
  (Ran("status") /\ store'.op[2] = store.status) =>
    /\ store'.notified = <<>>
    /\ store'.status = store.status
    /\ store'.error = store.error
    /\ store'.messagesRef = store.messagesRef
    /\ store'.arrays = store.arrays
    /\ store'.callbacks = store.callbacks

NewStatusRule ==
  (Ran("status") /\ store'.op[2] # store.status) =>
    /\ store'.status = store'.op[2]
    /\ NotifiedOnce("status")
    /\ store'.error = store.error
    /\ store'.messagesRef = store.messagesRef

ErrorRule ==
  Ran("error") =>
    /\ store'.error = store'.op[2]
    /\ NotifiedOnce("error")
    /\ store'.status = store.status
    /\ store'.messagesRef = store.messagesRef

LogRule ==
  (Ran("push") \/ Ran("pop") \/ Ran("messages") \/ Ran("write")) =>
    /\ NotifiedOnce("messages")
    /\ store'.status = store.status
    /\ store'.error = store.error

\* the placeholder and the status of a round that starts to stream: two
\* assignments, each with the calls of its own facet
StartRule ==
  Ran("start") =>
    /\ \A i \in 1..Len(store'.notified) :
         store'.notified[i].facet =
           IF i <= Len(store.callbacks["messages"]) THEN "messages" ELSE "status"
    /\ Len(store'.notified) =
         Len(store.callbacks["messages"])
           + (IF store.status = "streaming" THEN 0 ELSE Len(store.callbacks["status"]))
    /\ store'.error = store.error

GoneStaysGone ==
  \A i \in 1..Len(store'.notified) :
    <<store'.notified[i].facet, store'.notified[i].listener>> \notin store'.gone

C32_Facets ==
  [][SameStatusRule /\ NewStatusRule /\ ErrorRule /\ LogRule /\ StartRule
       /\ GoneStaysGone]_vars

\* the status was assigned its own value while a status listener was subscribed
C32_WitnessSameStatus ==
  /\ store.pc = "open"
  /\ store.op = <<"status", "ready">>
  /\ store.status = "ready"
  /\ store.notified = <<>>
  /\ Len(store.callbacks["status"]) > 0

\* the error slot was emptied while empty and its listener was called; the
\* listener of the messages was not
C32_WitnessSameError ==
  /\ store.pc = "open"
  /\ store.op = <<"error", NoError>>
  /\ store.ops = 1
  /\ Len(store.notified) = 1
  /\ Len(store.callbacks["messages"]) = 1

\* of two listeners of the log one has unsubscribed; the write calls the other
C32_WitnessUnsubscribed ==
  /\ store.pc = "open"
  /\ store.op[1] = "push"
  /\ <<"messages", "l1">> \in store.gone
  /\ Len(store.notified) = 1
  /\ store.notified[1].listener = "l2"

(***************************************************************************)
(* C33: a snapshot accessor returns the identical value until its facet is *)
(* mutated; a mutation of the log installs a new array and changes no      *)
(* array built before; and a listener is called inside the mutation, after *)
(* the new value is installed, the listeners of the log before those of    *)
(* the status when a step assigns both, so that the snapshot it reads is   *)
(* the value that caused the call.                                         *)
(***************************************************************************)
LogMutation == Ran("push") \/ Ran("pop") \/ Ran("messages") \/ Ran("write") \/ Ran("start")

StableBetweenMutations ==
  /\ ~LogMutation => getMessagesSnapshot(store') = getMessagesSnapshot(store)
  /\ ~(Ran("status") \/ Ran("start")) => getStatusSnapshot(store') = getStatusSnapshot(store)
  /\ ~Ran("error") => getErrorSnapshot(store') = getErrorSnapshot(store)

InstallsNewArray ==
  /\ LogMutation => getMessagesSnapshot(store') \notin 1..Len(store.arrays)
  /\ \A a \in 1..Len(store.arrays) : store'.arrays[a] = store.arrays[a]

ReadsInstalled ==
  \A i \in 1..Len(store'.notified) :
    LET d == store'.notified[i]
    IN /\ d.facet = "messages" => d.array = getMessagesSnapshot(store')
       /\ d.facet = "status" => d.status = getStatusSnapshot(store')
       /\ d.facet = "error" => d.error = getErrorSnapshot(store')
       /\ \A j \in 1..Len(store'.notified) :
            (store'.notified[j].facet = "messages" /\ d.facet = "status") => j < i

C33_Snapshots == [][StableBetweenMutations /\ InstallsNewArray /\ ReadsInstalled]_vars

\* the third array of the store was installed by a write of the loop and the
\* listener called read it
C33_WitnessRead ==
  /\ store.pc = "open"
  /\ store.op[1] = "write"
  /\ Len(store.notified) = 1
  /\ store.notified[1].array = 3
  /\ getMessagesSnapshot(store) = 3

\* a listener subscribed after two mutations of the log: the snapshot is
\* still the array of the second
C33_WitnessStable ==
  /\ store.pc = "open"
  /\ store.op[1] = "subscribe"
  /\ store.ops = 2
  /\ getMessagesSnapshot(store) = 3

(***************************************************************************)
(* C34: an array of messages handed to a listener keeps its value: every   *)
(* write of the streaming loop stores a copy that shares no tool-call      *)
(* object with the accumulator, also when the log is empty at the write,   *)
(* so the name and the arguments of a tool call of an earlier snapshot     *)
(* stay what they were when it was published.                              *)
(***************************************************************************)
Frozen(a) == DerefLog(store.entries, store.arrays[a]) = store.values[a]

C34_PublishedFrozen ==
  store.pc = "open" => \A a \in store.published : Frozen(a)

\* the entries the log shares with the accumulator of the loop
Shared(st) ==
  { k \in 1..Len(st.entries) :
      /\ \E i \in 1..Len(st.toolCalls) : st.toolCalls[i] = k
      /\ \E a \in 1..Len(st.arrays) : \E j \in 1..Len(st.arrays[a]) :
           /\ "tool_calls" \in DOMAIN st.arrays[a][j]
           /\ \E n \in 1..Len(st.arrays[a][j].tool_calls) :
                st.arrays[a][j].tool_calls[n] = k }

\* what holds: a write into a log that is not empty shares nothing with the
\* accumulator, and as long as nothing is shared every array keeps its value
C34_CopiedWhenNotEmpty ==
  [][ /\ (Ran("write") /\ Len(StoreLog(store)) > 0 /\ Shared(store) = {})
          => Shared(store') = {}
      /\ Shared(store) = {}
          => \A a \in 1..Len(store.arrays) :
               DerefLog(store'.entries, store'.arrays[a]) = store.values[a] ]_vars

\* a snapshot with a tool call was published and a later delta of the same
\* tool call was written
C34_Witness ==
  /\ store.pc = "open"
  /\ store.op[1] = "write"
  /\ Len(store.op[2].tool_calls) = 1
  /\ store.op[2].tool_calls[1].arguments = StrArgs
  /\ \E a \in store.published :
       /\ a < store.messagesRef
       /\ Len(store.arrays[a]) > 0
       /\ "tool_calls" \in DOMAIN store.arrays[a][Len(store.arrays[a])]
       /\ Frozen(a)

(***************************************************************************)
(* C35: when sendMessage starts a round after stop() has cancelled the     *)
(* round before it and before the completion handler of the cancelled      *)
(* round has run, that late completion changes neither the status nor the  *)
(* controller ref: while the new round is in flight the status stays       *)
(* submitted or streaming and the ref stays its controller, so that a      *)
(* later stop() aborts the new round.                                      *)
(***************************************************************************)
\* round q was started by sendMessage while the cancelled round r had not
\* completed, and q has not been cancelled itself
Overtaken(r, q) ==
  /\ r < q
  /\ round[r].aborted /\ InFlight(r)
  /\ round[q].kind = "send" /\ InFlight(q) /\ ~round[q].aborted

LateCompletion ==
  \A r \in Rounds, q \in Rounds :
    (Overtaken(r, q) /\ Completes(r) /\ abortControllerRef = q
       /\ status \in {"submitted", "streaming"}) =>
      /\ status' = status
      /\ abortControllerRef' = q

StopStillCancels ==
  \A r \in Rounds, q \in Rounds :
    (r < q /\ round[r].aborted /\ round[q].kind = "send" /\ round[q].parent = 0
       /\ InFlight(q) /\ ~round[q].aborted /\ q = nRounds /\ Called("stop")) =>
      round'[q].aborted

C35_LateCompletion == [][LateCompletion /\ StopStillCancels]_vars

\* what holds: the completion of a round that was cancelled and not
\* overtaken leaves the status ready and the controller ref empty
C35_NotOvertaken ==
  [][\A r \in Rounds :
       (round[r].aborted /\ Completes(r) /\ abortControllerRef = 0
          /\ status = "ready" /\ ~HasEvent(effects', "error")) =>
         (status' = "ready" \/ nRounds' > nRounds) /\ abortControllerRef' \in {0, nRounds'}]_vars

(***************************************************************************)
(* C36: onFinish is called exactly once for every round, however the round *)
(* ends: normally, cancelled, failed before or during the stream, and also *)
(* when onFinish itself, the predicate of the auto-continuation or the     *)
(* nested round that continues it fails.                                   *)
(***************************************************************************)
FinishCalls(r) ==
  Cardinality({ i \in DOMAIN effects' :
                  effects'[i].ev = "onFinish" /\ effects'[i].round = r })

FinishedOnce ==
  \A r \in Rounds :
    /\ Completes(r) => FinishCalls(r) = 1
    /\ ~InFlight(r) => FinishCalls(r) = 0

C36_FinishOnce == [][FinishedOnce]_vars

\* a round ended by a stop, by a failure of the transport or by a stream end,
\* and its onFinish was called
C36_Witness ==
  /\ nRounds = 2
  /\ round[1].pc = "done" /\ round[2].pc = "done"
  /\ \E i \in DOMAIN effects :
       effects[i].ev = "onFinish" /\ effects[i].round = 2 /\ effects[i].isError

\* what holds: onFinish is called exactly once for every round when onError,
\* onFinish and the predicate return (also when onToolCall fails)
C36_WhenCallbacksReturn ==
  [][(options.onError = "ok" /\ options.onFinish = "ok"
        /\ options.predicateFails = "no") => FinishedOnce]_vars

(***************************************************************************)
(* C37: a round that ends by a stop of the caller reports no tool call:    *)
(* whether the abort error of a read ends it or the poll between two       *)
(* deltas sees the abort, onToolCall is not called for the tool calls the  *)
(* round accumulated before the stop, complete or not.                     *)
(***************************************************************************)
EndsByAbortError(r) == round[r].aborted /\ Completes(r) /\ Resumed(r, "rejected")

EndsByPoll(r) == round[r].aborted /\ Completes(r) /\ Resumed(r, "chunk")

C37_CancelledSilent ==
  [][\A r \in Rounds :
       (EndsByAbortError(r) \/ EndsByPoll(r)) => ~HasEvent(effects', "onToolCall")]_vars

\* what holds: a round ended by the abort error reports no tool call
C37_AbortErrorSilent ==
  [][\A r \in Rounds :
       EndsByAbortError(r) => ~HasEvent(effects', "onToolCall")]_vars

(***************************************************************************)
(* C38: once stop() has returned no round starts until the caller calls    *)
(* sendMessage or addToolResult again, also when stop() was called while   *)
(* the promise of the auto-continuation predicate was pending, after the   *)
(* end of a stream or inside addToolResult: the status stays ready.        *)
(***************************************************************************)
\* stop() has just returned
AfterStop == Len(effects) > 0 /\ effects[1] = EvCall("stop", <<>>)

\* a step that starts a round and is no call of the caller
StartsUnasked == Next /\ Starts /\ ~Called("sendMessage")

C38_QuietAfterStop == AfterStop => ~ENABLED StartsUnasked

\* what holds: after a stop() that found no continuation pending (no
\* predicate under evaluation, no round left in flight) no round starts by
\* itself
NothingPending ==
  /\ toolThen = <<>>
  /\ \A r \in Rounds : round[r].pc \in {"idle", "done"}

C38_QuietWhenNothingPending ==
  (AfterStop /\ NothingPending) => ~ENABLED StartsUnasked

(***************************************************************************)
(* C39: the messages of the request of a round are the log as it is when   *)
(* the round is submitted: the log ending with the user message that       *)
(* sendMessage has just appended, or, for a continuation round, the log as *)
(* the continuation finds it, nothing appended; the request is built       *)
(* before the placeholder of the round is pushed and is not changed        *)
(* afterwards; the id sent is the id of the session.  The statement of the *)
(* claim adds that the log of a continuation round ends with a tool result *)
(* that follows an assistant message.                                      *)
(***************************************************************************)
SentMessages(request) ==
  IF options.transport.prepareRequestBody
    THEN request.body.preparedFrom.messages
    ELSE request.body.messages

SentId(request) ==
  IF options.transport.prepareRequestBody
    THEN request.body.preparedFrom.id
    ELSE request.body.id

EndsWithToolResult(log) ==
  /\ Len(log) >= 2
  /\ log[Len(log)].role = "tool"
  /\ \E i \in 1..(Len(log) - 1) : log[i].role = "assistant"

RequestIsLog(asStated) ==
  /\ Starts =>
       LET sent == SentMessages(round'[nRounds'].request)
       IN /\ sent = messages'
          /\ SentId(round'[nRounds'].request) = ChatId
          /\ IF Called("sendMessage")
               THEN /\ messages' = Append(messages, UserMessage(effects'[1].arg))
                    /\ sent[Len(sent)] = UserMessage(effects'[1].arg)
               ELSE /\ messages' = messages
                    /\ asStated => EndsWithToolResult(sent)
  /\ \A r \in Rounds :
       /\ (InFlight(r) /\ InFlight(r)') => round'[r].request = round[r].request
       /\ (Resumed(r, "response") /\ round'[r].pc = "stream") =>
            /\ messages' = Append(messages, Placeholder)
            /\ SentMessages(round[r].request) = round[r].submitted

C39_WitnessAuto ==
  /\ nRounds >= 2
  /\ round[nRounds].kind = "auto"
  /\ round[nRounds].pc = "fetch"
  /\ LastMessage(SentMessages(round[nRounds].request)).role = "assistant"

(***************************************************************************)
(* C40: what a response adapter writes for a finite sequence of chunks,    *)
(* cut into network chunks in any way and decoded by parseSSEStream, gives *)
(* back the chunks, in order, and then the decoder ends; when the source   *)
(* of the adapter fails the decoder gives back the chunks written before   *)
(* the failure.                                                            *)
(***************************************************************************)
\* the chunks the adapter has written frames for
WrittenChunks == SubSeq(adapter.result.chunks, 1, adapter.pos)

C40_WitnessFailure ==
  /\ sse.pc = "done"
  /\ adapter.kind = "pipe"
  /\ adapter.failure = ErrSource
  /\ sse.out = <<JObject(<<>>)>>

====
